---- MODULE Spec2Model ----
(***************************************************************************)
(* Verification model of control-components.                               *)
(*                                                                         *)
(* Part 1: the MotionClient (interface/tcp.rs `client`), the callers that  *)
(* reach it through SendRecv::write (components/send_recv.rs) and the TCP  *)
(* peer it talks to.                                                       *)
(***************************************************************************)
EXTENDS Integers, Sequences, FiniteSets, TLC

VARIABLES
    \* ---- MotionClient and its callers --------------------------------
    callerPc,    \* per caller: "idle", "waiting", "failed", "gone"
    callerReq,   \* per caller: id of the request it is waiting on (0: none)
    callerRes,   \* per caller: what its last write() returned
    nextId,      \* id the next enqueued request gets (ids = enqueue order)
    queue,       \* mpsc channel contents: request ids, oldest first
    sink,        \* per request: state of its oneshot reply sender
    delivered,   \* per request: the bytes handed to its reply sink
    clientPc,    \* position of the serve loop
    cur,         \* request the serve loop holds (0: none)
    nwritten,    \* bytes of cur's frame written so far
    wire,        \* every byte written to the socket, in order: <<req, index>>
    replied,     \* number of frames the controller has answered
    net,         \* reply bytes sent by the controller, not yet at the client
    rxbuf,       \* reply bytes in the client's socket receive buffer
    peer,        \* "open", "closed" (orderly shutdown), "reset"
    resolved,    \* request ids in the order their sinks fired or were dropped
    readsDone,   \* number of reads that have returned
    clientRet,   \* what client() returned: "none", "Ok", "Err"
    \* ---- Dispenser (subsystems/dispenser.rs) and the scale actor -------
    disp,        \* locals and position of Dispenser::dispense
    motor,       \* what the dispenser's motor has been told
    dNow,        \* time since init_time, in units of 100 ms
    interrupt,   \* SIGINT has been delivered
    scaleA,      \* the scale actor: position, shutdown flag, pending request
    \* ---- SetpointDispenser (dispenser/setpoint_dispense.rs) -------------
    sp,          \* locals and position of launch/dispense and of the updater
    \* ---- RelayHBridge, Hatch, Sealer (subsystems/) -----------------------
    servo,       \* relays, heater and the position of the running operation
    \* ---- EtherCAT master (controllers/ek1100_io.rs) ---------------------
    ecat,        \* group state, process image, command queue, loop position
    \* ---- Gantry (subsystems/gantry.rs) ----------------------------------
    gantry,      \* request queue, motor frames sent, replies, loop position
    \* ---- Scale actor with several requesters (components/scale.rs) ------
    scaleQ,      \* request queue, readings taken, replies, loop position
    \* ---- Device handles and the codec (components/, util/utils.rs) ------
    handle,      \* the operation of one handle: input, frames, replies, result
    \* ---- Pacing of the MotionClient (interface/tcp.rs) ------------------
    pace,        \* clock, interval deadline, queued requests, write instants
    \* ---- Median queries (components/scale.rs, subsystems/dispenser.rs) --
    mq           \* per query: samples taken so far and the value returned

clientVars == <<callerPc, callerReq, callerRes, nextId, queue, sink, delivered,
                clientPc, cur, nwritten, wire, replied, net, rxbuf, peer,
                resolved, readsDone, clientRet>>

dispVars == <<disp, motor, dNow, interrupt, scaleA>>

actorVars == <<ecat, gantry, scaleQ, handle>>

vars == <<clientVars, dispVars, sp, servo, actorVars, pace, mq>>

\* What the operations of one part leave alone.
nonClientVars == <<dispVars, sp, servo, actorVars, pace, mq>>
nonDispVars == <<clientVars, sp, servo, actorVars, pace, mq>>
nonSetpointVars == <<clientVars, disp, servo, actorVars, pace, mq>>
nonServoVars == <<clientVars, actorVars, pace, mq>>

----------------------------------------------------------------------------
\* Bounds of the model.
NCallers == 2
MaxReq == 2
QueueCap == 2
FrameLen == 2
ReplyLen == 2

\* let mut buffer = [0; 100];
ReadWindow == 100

Callers == 1..NCallers
ReqIds == 1..MaxReq

Min(a, b) == IF a < b THEN a ELSE b

SeqToSet(s) == {s[i] : i \in 1..Len(s)}

----------------------------------------------------------------------------
\* msg.recv(): the channel hands out the oldest message.
RecvLast(q) == [msg |-> q[Len(q)], rest |-> SubSeq(q, 1, Len(q) - 1)]

Recv(q) == [msg |-> Head(q), rest |-> Tail(q)]

\* The requests whose reply sender is dropped unsent when client() returns:
\* the message the loop holds and every message still in the channel
\* (dropping the Receiver drops the queued messages), oldest first.
AbandonedHeldOnly(c, q) == IF c # 0 /\ sink[c] = "pending" THEN <<c>> ELSE <<>>

Abandoned(c, q) == (IF c # 0 /\ sink[c] = "pending" THEN <<c>> ELSE <<>>) \o q

\* The reply the controller produces for request r, byte by byte.
ReplyOf(r) == [j \in 1..ReplyLen |-> <<r, j>>]

\* Frames completely written to the socket, in wire order.
CompleteFrames == SelectSeq(wire, LAMBDA b : b[2] = FrameLen)

----------------------------------------------------------------------------
InitClient ==
    /\ callerPc = [c \in Callers |-> "idle"]
    /\ callerReq = [c \in Callers |-> 0]
    /\ callerRes = [c \in Callers |-> "none"]
    /\ nextId = 1
    /\ queue = <<>>
    /\ sink = [r \in ReqIds |-> "none"]
    /\ delivered = [r \in ReqIds |-> <<>>]
    /\ clientPc = "recv"
    /\ cur = 0
    /\ nwritten = 0
    /\ wire = <<>>
    /\ replied = 0
    /\ net = <<>>
    /\ rxbuf = <<>>
    /\ peer = "open"
    /\ resolved = <<>>
    /\ readsDone = 0
    /\ clientRet = "none"

\* SendRecv::write, first half: self.get_sender().send(msg).await?
\* The send fails once the receiver is gone; it waits while the channel is full.
CallerSend(c) ==
    /\ callerPc[c] = "idle"
    /\ IF clientPc = "closed"
         THEN /\ callerPc' = [callerPc EXCEPT ![c] = "failed"]
              /\ callerRes' = [callerRes EXCEPT ![c] = "Disconnected"]
              /\ UNCHANGED <<callerReq, nextId, queue, sink>>
         ELSE /\ nextId <= MaxReq
              /\ Len(queue) < QueueCap
              /\ queue' = Append(queue, nextId)
              /\ sink' = [sink EXCEPT ![nextId] = "pending"]
              /\ callerReq' = [callerReq EXCEPT ![c] = nextId]
              /\ callerPc' = [callerPc EXCEPT ![c] = "waiting"]
              /\ nextId' = nextId + 1
              /\ UNCHANGED callerRes
    /\ UNCHANGED <<delivered, clientPc, cur, nwritten, wire, replied, net, rxbuf,
                   peer, resolved, readsDone, clientRet>>
    /\ UNCHANGED nonClientVars

\* SendRecv::write, second half: let res = resp_rx.await?; Ok(res)
CallerRecv(c) ==
    /\ callerPc[c] = "waiting"
    /\ sink[callerReq[c]] \in {"fired", "dropped"}
    /\ callerRes' = [callerRes EXCEPT ![c] =
                        IF sink[callerReq[c]] = "fired" THEN "Ok" ELSE "Disconnected"]
    /\ callerPc' = [callerPc EXCEPT ![c] = "idle"]
    /\ UNCHANGED <<callerReq, nextId, queue, sink, delivered, clientPc, cur,
                   nwritten, wire, replied, net, rxbuf, peer, resolved, readsDone,
                   clientRet>>
    /\ UNCHANGED nonClientVars

\* A device handle (and its clone of the sender) is dropped.
CallerDrop(c) ==
    /\ callerPc[c] = "idle"
    /\ callerPc' = [callerPc EXCEPT ![c] = "gone"]
    /\ UNCHANGED <<callerReq, callerRes, nextId, queue, sink, delivered, clientPc,
                   cur, nwritten, wire, replied, net, rxbuf, peer, resolved,
                   readsDone, clientRet>>
    /\ UNCHANGED nonClientVars

\* client() returns: the held message and the receiver are dropped.
ClientExit(ret) ==
    /\ clientPc' = "closed"
    /\ clientRet' = ret
    /\ sink' = [r \in ReqIds |->
                  IF r \in SeqToSet(Abandoned(cur, queue)) THEN "dropped" ELSE sink[r]]
    /\ resolved' = resolved \o Abandoned(cur, queue)
    /\ queue' = <<>>
    /\ cur' = 0

\* while let Some(message) = msg.recv().await
ClientRecv ==
    /\ clientPc = "recv"
    /\ queue # <<>>
    /\ cur' = Recv(queue).msg
    /\ queue' = Recv(queue).rest
    /\ nwritten' = 0
    /\ clientPc' = "write"
    /\ UNCHANGED <<callerPc, callerReq, callerRes, nextId, sink, delivered, wire,
                   replied, net, rxbuf, peer, resolved, readsDone, clientRet>>
    /\ UNCHANGED nonClientVars

\* msg.recv() yields None: every sender is dropped and the channel is empty.
ClientRecvNone ==
    /\ clientPc = "recv"
    /\ queue = <<>>
    /\ \A c \in Callers : callerPc[c] = "gone"
    /\ ClientExit("Ok")
    /\ UNCHANGED <<callerPc, callerReq, callerRes, nextId, delivered, nwritten,
                   wire, replied, net, rxbuf, peer, readsDone>>
    /\ UNCHANGED nonClientVars

\* stream.write_all(&message.buffer).await? -- one byte per step.
\* The mutant goes back for the next message without reading the reply.
ClientWritePipelined ==
    /\ clientPc = "write"
    /\ IF peer = "reset"
         THEN /\ ClientExit("Err")
              /\ UNCHANGED <<nwritten, wire>>
         ELSE /\ wire' = Append(wire, <<cur, nwritten + 1>>)
              /\ nwritten' = nwritten + 1
              /\ clientPc' = IF nwritten + 1 = FrameLen THEN "recv" ELSE "write"
              /\ UNCHANGED <<queue, sink, cur, resolved, clientRet>>
    /\ UNCHANGED <<callerPc, callerReq, callerRes, nextId, delivered, replied, net,
                   rxbuf, peer, readsDone>>
    /\ UNCHANGED nonClientVars

ClientWrite ==
    /\ clientPc = "write"
    /\ IF peer = "reset"
         THEN /\ ClientExit("Err")
              /\ UNCHANGED <<nwritten, wire>>
         ELSE /\ wire' = Append(wire, <<cur, nwritten + 1>>)
              /\ nwritten' = nwritten + 1
              /\ clientPc' = IF nwritten + 1 = FrameLen THEN "readable" ELSE "write"
              /\ UNCHANGED <<queue, sink, cur, resolved, clientRet>>
    /\ UNCHANGED <<callerPc, callerReq, callerRes, nextId, delivered, replied, net,
                   rxbuf, peer, readsDone>>
    /\ UNCHANGED nonClientVars

\* stream.readable().await?
ClientReadable ==
    /\ clientPc = "readable"
    /\ rxbuf # <<>> \/ peer # "open"
    /\ IF rxbuf = <<>> /\ peer = "reset"
         THEN ClientExit("Err")
         ELSE /\ clientPc' = "read"
              /\ UNCHANGED <<queue, sink, cur, resolved, clientRet>>
    /\ UNCHANGED <<callerPc, callerReq, callerRes, nextId, delivered, nwritten,
                   wire, replied, net, rxbuf, peer, readsDone>>
    /\ UNCHANGED nonClientVars

\* A variant of the read that treats a zero-byte read like a read error: it
\* leaves the serve loop.
ClientReadZeroBreaks ==
    /\ clientPc = "read"
    /\ IF rxbuf # <<>>
         THEN LET n == Min(ReadWindow, Len(rxbuf)) IN
              /\ delivered' = [delivered EXCEPT ![cur] = SubSeq(rxbuf, 1, n)]
              /\ rxbuf' = SubSeq(rxbuf, n + 1, Len(rxbuf))
              /\ sink' = [sink EXCEPT ![cur] = "fired"]
              /\ resolved' = Append(resolved, cur)
              /\ readsDone' = readsDone + 1
              /\ clientPc' = "tick"
              /\ UNCHANGED <<queue, cur, clientRet>>
         ELSE /\ ClientExit("Ok")
              /\ UNCHANGED <<delivered, rxbuf, readsDone>>
    /\ UNCHANGED <<callerPc, callerReq, callerRes, nextId, nwritten, wire, replied,
                   net, peer>>
    /\ UNCHANGED nonClientVars

\* match stream.read(&mut buffer).await { Ok(0) | Ok(_) | Err(e) }
ClientRead ==
    /\ clientPc = "read"
    /\ IF rxbuf # <<>>
         THEN \* Ok(n): message.response.send(buffer.to_vec())
              LET n == Min(ReadWindow, Len(rxbuf)) IN
              /\ delivered' = [delivered EXCEPT ![cur] = SubSeq(rxbuf, 1, n)]
              /\ rxbuf' = SubSeq(rxbuf, n + 1, Len(rxbuf))
              /\ sink' = [sink EXCEPT ![cur] = "fired"]
              /\ resolved' = Append(resolved, cur)
              /\ readsDone' = readsDone + 1
              /\ clientPc' = "tick"
              /\ UNCHANGED <<queue, cur, clientRet>>
         ELSE IF peer = "closed"
         THEN \* Ok(0): logged, nothing is sent
              /\ readsDone' = readsDone + 1
              /\ clientPc' = "tick"
              /\ UNCHANGED <<queue, sink, cur, resolved, clientRet, delivered, rxbuf>>
         ELSE \* Err(e): break
              /\ ClientExit("Ok")
              /\ UNCHANGED <<delivered, rxbuf, readsDone>>
    /\ UNCHANGED <<callerPc, callerReq, callerRes, nextId, nwritten, wire, replied,
                   net, peer>>
    /\ UNCHANGED nonClientVars

\* tick_interval.tick().await, then the end of the loop body, where `message`
\* goes out of scope: an unsent reply sender is dropped here.
ClientTick ==
    /\ clientPc = "tick"
    /\ sink' = [sink EXCEPT ![cur] = IF @ = "pending" THEN "dropped" ELSE @]
    /\ resolved' = IF sink[cur] = "pending" THEN Append(resolved, cur) ELSE resolved
    /\ cur' = 0
    /\ clientPc' = "recv"
    /\ UNCHANGED <<callerPc, callerReq, callerRes, nextId, queue, delivered,
                   nwritten, wire, replied, net, rxbuf, peer, readsDone, clientRet>>
    /\ UNCHANGED nonClientVars

\* The controller answers the oldest complete frame it has not answered yet.
CtrlReply ==
    /\ peer = "open"
    /\ replied < Len(CompleteFrames)
    /\ net' = net \o ReplyOf(CompleteFrames[replied + 1][1])
    /\ replied' = replied + 1
    /\ UNCHANGED <<callerPc, callerReq, callerRes, nextId, queue, sink, delivered,
                   clientPc, cur, nwritten, wire, rxbuf, peer, resolved, readsDone,
                   clientRet>>
    /\ UNCHANGED nonClientVars

\* TCP delivers the reply stream in pieces of any size: one more byte arrives.
NetDeliver ==
    /\ net # <<>>
    /\ peer # "reset"
    /\ rxbuf' = Append(rxbuf, Head(net))
    /\ net' = Tail(net)
    /\ UNCHANGED <<callerPc, callerReq, callerRes, nextId, queue, sink, delivered,
                   clientPc, cur, nwritten, wire, replied, peer, resolved, readsDone,
                   clientRet>>
    /\ UNCHANGED nonClientVars

\* The controller closes the connection in an orderly way.
PeerClose ==
    /\ peer = "open"
    /\ peer' = "closed"
    /\ UNCHANGED <<callerPc, callerReq, callerRes, nextId, queue, sink, delivered,
                   clientPc, cur, nwritten, wire, replied, net, rxbuf, resolved,
                   readsDone, clientRet>>
    /\ UNCHANGED nonClientVars

\* The connection breaks: buffered data is lost, reads and writes fail.
PeerReset ==
    /\ peer \in {"open", "closed"}
    /\ peer' = "reset"
    /\ net' = <<>>
    /\ rxbuf' = <<>>
    /\ UNCHANGED <<callerPc, callerReq, callerRes, nextId, queue, sink, delivered,
                   clientPc, cur, nwritten, wire, replied, resolved, readsDone,
                   clientRet>>
    /\ UNCHANGED nonClientVars

NextClient ==
    \/ \E c \in Callers : CallerSend(c)
    \/ \E c \in Callers : CallerRecv(c)
    \/ \E c \in Callers : CallerDrop(c)
    \/ ClientRecv
    \/ ClientRecvNone
    \/ ClientWrite
    \/ ClientReadable
    \/ ClientRead
    \/ ClientTick
    \/ CtrlReply
    \/ NetDeliver
    \/ PeerClose
    \/ PeerReset

\* The other subsystems at rest.
IdleDispenser ==
    /\ disp = [pc |-> "idle"]
    /\ motor = [sent |-> "none"]
    /\ dNow = 0
    /\ interrupt = FALSE
    /\ scaleA = [pc |-> "idle"]

IdleSetpoint == sp = [pc |-> "idle"]

IdleServo == servo = [pc |-> "absent"]

IdleEcat == ecat = [pc |-> "absent"]

IdleGantry == gantry = [pc |-> "absent"]

IdleScale == scaleQ = [pc |-> "absent"]

IdleHandle == handle = [pc |-> "absent"]

IdlePace == pace = [pc |-> "absent"]

IdleMedian == mq = [pc |-> "absent"]

\* The MotionClient on its own: nothing else has been constructed.
ClientStart ==
    InitClient /\ IdleDispenser /\ IdleSetpoint /\ IdleServo /\ IdleEcat /\ IdleGantry
    /\ IdleScale /\ IdleHandle
    /\ IdlePace /\ IdleMedian

SpecClient ==
    /\ ClientStart
    /\ [][NextClient]_vars

----------------------------------------------------------------------------
\* Properties of the MotionClient.

HasWireByte(r) == \E i \in 1..Len(wire) : wire[i][1] = r

Resolved(r) == sink[r] \in {"fired", "dropped"}

\* C1 -- MotionClient FIFO: request ids are handed out in enqueue order. Before
\* any byte of a request B is on the wire, every request A enqueued before B
\* has had its reply delivered or has been abandoned; the wire carries the
\* frames in enqueue order and the reply sinks are resolved in enqueue order.
C1_Fifo ==
    /\ \A b \in ReqIds : HasWireByte(b) => \A a \in 1..(b - 1) : Resolved(a)
    /\ \A i, j \in 1..Len(wire) : i < j => wire[i][1] <= wire[j][1]
    /\ \A i, j \in 1..Len(resolved) : i < j => resolved[i] < resolved[j]

\* Two requests were written and answered, one after the other.
C1_Witness ==
    \E a, b \in ReqIds :
        /\ a < b
        /\ sink[a] = "fired" /\ sink[b] = "fired"
        /\ HasWireByte(a) /\ HasWireByte(b)

\* C2 -- MotionClient independence: the bytes of one frame are contiguous on
\* the wire and complete before the next frame starts, at most one written
\* request is unanswered, and a frame is started only after the read for the
\* previous frame has returned.
FramesStarted == Cardinality({i \in 1..Len(wire) : wire[i][2] = 1})

C2_OneInFlight ==
    /\ \A i \in 1..(Len(wire) - 1) :
          IF wire[i][1] = wire[i + 1][1]
            THEN wire[i + 1][2] = wire[i][2] + 1
            ELSE wire[i][2] = FrameLen /\ wire[i + 1][2] = 1
    /\ Cardinality({r \in ReqIds : HasWireByte(r) /\ sink[r] = "pending"}) <= 1
    /\ FramesStarted <= readsDone + 1

\* Two callers wait at the same time while a second frame is on the wire.
C2_Witness ==
    /\ \A c \in Callers : callerPc[c] = "waiting"
    /\ FramesStarted >= 2
    /\ clientPc = "readable"

\* C3 -- Request/reply pairing: the buffer delivered to a caller holds only
\* bytes the controller sent in response to that caller's own frame, however
\* the reply bytes are split or delayed across the client's reads.
C3_Pairing ==
    \A r \in ReqIds :
        sink[r] = "fired" =>
            \A i \in 1..Len(delivered[r]) : delivered[r][i][1] = r

\* C4 -- MotionClient failure semantics: once the serve loop has exited no
\* reply sink is left pending and the channel is empty, so every caller that
\* waits can complete, and it completes with Disconnected unless its reply
\* was delivered; a send attempted after the exit fails and enqueues nothing.
C4_Disconnected ==
    clientPc = "closed" =>
        /\ queue = <<>>
        /\ \A r \in ReqIds : sink[r] # "pending"
        /\ \A c \in Callers :
              /\ callerPc[c] = "waiting" => Resolved(callerReq[c])
              /\ callerPc[c] = "failed" => callerRes[c] = "Disconnected"
              /\ (callerPc[c] = "idle" /\ callerReq[c] # 0
                    /\ sink[callerReq[c]] = "dropped")
                   => callerRes[c] = "Disconnected"

\* The loop exited on an error while a request was queued behind the one in
\* hand; one caller has seen Disconnected for it, another failed to send.
C4_Witness ==
    /\ clientPc = "closed"
    /\ clientRet = "Err"
    /\ Cardinality({r \in ReqIds : sink[r] = "dropped"}) >= 2
    /\ \E c \in Callers : callerPc[c] = "failed"
    /\ \E c \in Callers : callerPc[c] = "idle" /\ callerRes[c] = "Disconnected"

----------------------------------------------------------------------------
(***************************************************************************)
(* Part 2: Dispenser::dispense (subsystems/dispenser.rs) together with the *)
(* scale actor it queries (components/scale.rs `actor`) and the interrupt  *)
(* flag both register for.  Weights are whole grams; the f64 low-pass      *)
(* filter is computed in integer arithmetic with weights FilterA, FilterB. *)
(* Time is counted in units of 100 ms.                                     *)
(***************************************************************************)

\* Bounds of the model.
MaxW == 2
MaxGrams == 2
MaxOffset == 1
Samples == 1
MaxTime == 4
DispTimeout == 2
FilterA == 1
FilterB == 1

\* Duration::from_millis(200), Duration::from_millis(500), in 100 ms units.
UpdateGap == 2
NudgeSleep == 5
\* motor_speed: 0.3 and the 0.1 threshold of update_motor_speed, times 1000.
SpeedMilli == 300
MinSpeedMilli == 100
\* relative_move(20.) of Dispenser::update_motor_speed and relative_move(30.)
\* of the updater task of SetpointDispenser.
UpdateMove == 20
\* relative_move(100.) of the timed setpoint.
TimedMove == 100
SetpointUpdateMove == 30

Weights == 0..MaxW

\* tokio::time::interval with MissedTickBehavior::Skip: the due instant after
\* a tick() that was due at `due` and returned at `now` is the next multiple
\* of the period, counted from `due`, that lies after `now`.
SkipNext(due, now, period) == due + period * (((now - due) \div period) + 1)

\* Insertion of x into an ascending sequence; sort_by(partial_cmp).
RECURSIVE Insert(_, _)
Insert(x, sq) ==
    IF sq = <<>> THEN <<x>>
    ELSE IF x <= Head(sq) THEN <<x>> \o sq
    ELSE <<Head(sq)>> \o Insert(x, Tail(sq))

RECURSIVE Sort(_)
Sort(sq) == IF sq = <<>> THEN <<>> ELSE Insert(Head(sq), Sort(Tail(sq)))

\* A variant of the median that takes the lower of the two middle elements
\* of a list of even length.
MedianLower(buf) == Sort(buf)[((Len(buf) - 1) \div 2) + 1]

\* buffer.sort_by(..); let middle = buffer.len() / 2; buffer[middle]
MedianOf(buf) == Sort(buf)[(Len(buf) \div 2) + 1]

\* curr_weight = filter_a * sample + filter_b * curr_weight
Filtered(sample, curr) == (FilterA * sample + FilterB * curr) \div (FilterA + FilterB)

\* at_setpoint / line 197: curr_weight < target_weight + check_offset
BelowCheck(curr, target, off) == curr < target + off

\* line 205: check_weight < target_weight + stop_offset
BelowStop(check, target, off) == check < target + off

\* line 183: current_time - init_time > timeout
TimedOut(now) == now > DispTimeout

\* A motor command: `ok` is whether the controller accepted it.  sent is the
\* last move ("RM") or stop ("AS") command issued to the motor.
MotorCmd(m, kind, ok) ==
    [m EXCEPT !.sent = IF kind \in {"RM", "AS"} THEN kind ELSE @,
              !.err = @ \/ ~ok]

\* A panic of the dispensing task (unwrap / expect on an Err).
Panicked(d) == [d EXCEPT !.pc = "dead", !.ret = "panic"]

InitDispenser ==
    /\ \E mode \in {"Weight", "Timed"}, rb \in BOOLEAN, ra \in BOOLEAN,
          g \in 1..MaxGrams, co \in 0..MaxOffset, so \in 0..MaxOffset :
         \* the timed setpoint reads none of the weight parameters
         /\ mode = "Timed" => g = 1 /\ co = 0 /\ so = 0
         /\ disp = [pc |-> "begin", cont |-> "none", mode |-> mode,
                 rb |-> rb, ra |-> ra, grams |-> g, checkOff |-> co, stopOff |-> so,
                 lastSent |-> 0, init |-> 0, curr |-> 0, target |-> 0,
                 buf |-> <<>>, end |-> "none", amount |-> 0, ret |-> "none",
                 reg |-> FALSE, shutdown |-> FALSE, tlog |-> <<>>]
    /\ motor = [sent |-> "none", err |-> FALSE, ignored |-> FALSE,
                vel |-> 0]
    /\ dNow = 0
    /\ interrupt = FALSE
    /\ scaleA = [pc |-> "top", shutdown |-> FALSE, req |-> "none", val |-> 0]

\* match &self.setpoint
DBegin ==
    /\ disp.pc = "begin"
    /\ disp' = IF disp.mode = "Weight"
                 THEN [disp EXCEPT !.pc = "gw_send", !.cont = "init_median", !.buf = <<>>]
                 ELSE [disp EXCEPT !.pc = "t_sv"]
    /\ UNCHANGED <<motor, dNow, interrupt, scaleA>>
    /\ UNCHANGED nonDispVars

\* get_weight: self.scale_tx.send(ScaleCmd(rep_tx)).await.unwrap()
DGetWeightSend ==
    /\ disp.pc = "gw_send"
    /\ IF scaleA.pc = "exited"
         THEN disp' = Panicked(disp) /\ UNCHANGED scaleA
         ELSE /\ disp' = [disp EXCEPT !.pc = "gw_wait"]
              /\ scaleA' = [scaleA EXCEPT !.req = "queued"]
    /\ UNCHANGED <<motor, dNow, interrupt>>
    /\ UNCHANGED nonDispVars

\* get_weight: rep_rx.await.unwrap(); then the caller's use of the value:
\* get_median_weight pushes it (samples + 1 readings), the loop filters it.
DGetWeightRecv ==
    /\ disp.pc = "gw_wait"
    /\ scaleA.req \in {"replied", "dropped"}
    /\ scaleA' = [scaleA EXCEPT !.req = "none", !.val = 0]
    /\ IF scaleA.req = "dropped"
         THEN disp' = Panicked(disp)
         ELSE IF disp.cont = "loop"
         THEN disp' = [disp EXCEPT !.curr = Filtered(scaleA.val, disp.curr),
                                   !.cont = "none", !.pc = "update_speed"]
         ELSE LET b == Append(disp.buf, scaleA.val) IN
              disp' = [disp EXCEPT !.buf = b,
                          !.pc = IF Len(b) = Samples + 1
                                   THEN (IF disp.cont = "init_median"
                                           THEN "init_done" ELSE "check_done")
                                   ELSE "gw_send"]
    /\ UNCHANGED <<motor, dNow, interrupt>>
    /\ UNCHANGED nonDispVars

\* let init_weight = curr_weight; let target_weight = init_weight - w.setpoint
DInitDone ==
    /\ disp.pc = "init_done"
    /\ LET m == MedianOf(disp.buf) IN
       disp' = [disp EXCEPT !.init = m, !.curr = m, !.target = m - disp.grams,
                            !.buf = <<>>, !.cont = "none", !.pc = "sv0"]
    /\ UNCHANGED <<motor, dNow, interrupt, scaleA>>
    /\ UNCHANGED nonDispVars

\* self.motor.set_velocity(self.parameters.motor_speed).await;  (result unused)
DSetVelocity ==
    /\ disp.pc = "sv0"
    /\ \E ok \in BOOLEAN :
         motor' = [MotorCmd(motor, "SV", ok) EXCEPT !.ignored = @ \/ ~ok,
                       !.vel = IF ok THEN SpeedMilli * disp.grams ELSE @]
    /\ disp' = [disp EXCEPT !.pc = IF disp.rb THEN "rb_move" ELSE "start_move"]
    /\ UNCHANGED <<dNow, interrupt, scaleA>>
    /\ UNCHANGED nonDispVars

\* self.motor.relative_move(-retract).await.expect("Motor faulted")
DRetractBefore ==
    /\ disp.pc = "rb_move"
    /\ \E ok \in BOOLEAN :
         /\ motor' = MotorCmd(motor, "RM", ok)
         /\ disp' = IF ok THEN [disp EXCEPT !.pc = "rb_wait"] ELSE Panicked(disp)
    /\ UNCHANGED <<dNow, interrupt, scaleA>>
    /\ UNCHANGED nonDispVars

\* self.motor.wait_for_move(..).await.unwrap(): returns at the first status
\* that is not Moving, panics on a failed status query.
DRetractWait ==
    /\ disp.pc = "rb_wait"
    /\ \E ok \in BOOLEAN :
         /\ motor' = MotorCmd(motor, "GS", ok)
         /\ disp' = IF ok THEN [disp EXCEPT !.pc = "rb_stop"] ELSE Panicked(disp)
    /\ UNCHANGED <<dNow, interrupt, scaleA>>
    /\ UNCHANGED nonDispVars

\* self.motor.abrupt_stop().await;  (result unused)
DRetractStop ==
    /\ disp.pc = "rb_stop"
    /\ \E ok \in BOOLEAN :
         motor' = [MotorCmd(motor, "AS", ok) EXCEPT !.ignored = @ \/ ~ok]
    /\ disp' = [disp EXCEPT !.pc = "start_move"]
    /\ UNCHANGED <<dNow, interrupt, scaleA>>
    /\ UNCHANGED nonDispVars

\* self.motor.relative_move(100.).await.expect("Motor faulted")
DStartMove ==
    /\ disp.pc = "start_move"
    /\ \E ok \in BOOLEAN :
         /\ motor' = MotorCmd(motor, "RM", ok)
         /\ disp' = IF ok THEN [disp EXCEPT !.pc = "register"] ELSE Panicked(disp)
    /\ UNCHANGED <<dNow, interrupt, scaleA>>
    /\ UNCHANGED nonDispVars

\* let shutdown = Arc::new(AtomicBool::new(false)); signal_hook::flag::register
DRegister ==
    /\ disp.pc = "register"
    /\ disp' = [disp EXCEPT !.reg = TRUE, !.shutdown = FALSE, !.pc = "loop_top"]
    /\ UNCHANGED <<motor, dNow, interrupt, scaleA>>
    /\ UNCHANGED nonDispVars

\* if shutdown.load(..) { abrupt_stop; break Failed }
DAbort ==
    /\ disp.pc = "loop_top"
    /\ disp.shutdown
    /\ \E ok \in BOOLEAN :
         motor' = [MotorCmd(motor, "AS", ok) EXCEPT !.ignored = @ \/ ~ok]
    /\ disp' = [disp EXCEPT !.end = "Failed", !.pc = "final_stop"]
    /\ UNCHANGED <<dNow, interrupt, scaleA>>
    /\ UNCHANGED nonDispVars

\* if current_time - init_time > timeout { abrupt_stop; break Timeout(..) }
DTimeout ==
    /\ disp.pc = "loop_top"
    /\ ~disp.shutdown
    /\ TimedOut(dNow)
    /\ \E ok \in BOOLEAN :
         motor' = [MotorCmd(motor, "AS", ok) EXCEPT !.ignored = @ \/ ~ok]
    /\ disp' = [disp EXCEPT !.end = "Timeout", !.amount = disp.init - disp.curr,
                            !.pc = "final_stop"]
    /\ UNCHANGED <<dNow, interrupt, scaleA>>
    /\ UNCHANGED nonDispVars

\* Neither: go on to sample the weight (line 190).
DLoopSample ==
    /\ disp.pc = "loop_top"
    /\ ~disp.shutdown
    /\ ~TimedOut(dNow)
    /\ disp' = [disp EXCEPT !.pc = "gw_send", !.cont = "loop"]
    /\ UNCHANGED <<motor, dNow, interrupt, scaleA>>
    /\ UNCHANGED nonDispVars

\* update_motor_speed, lines 99-110: at most every 200 ms; set_velocity only
\* when error * motor_speed >= 0.1, capped at motor_speed (result unused).
\* Velocities are kept multiplied by 1000 * grams.
DUpdateSpeed ==
    /\ disp.pc = "update_speed"
    /\ IF dNow - disp.lastSent > UpdateGap
         THEN LET newSpeed == (disp.curr - disp.target) * SpeedMilli IN
              /\ IF newSpeed >= MinSpeedMilli * disp.grams
                   THEN \E ok \in BOOLEAN :
                          motor' = [MotorCmd(motor, "SV", ok) EXCEPT
                                      !.ignored = @ \/ ~ok,
                                      !.vel = IF ~ok THEN @
                                              ELSE Min(newSpeed, SpeedMilli * disp.grams)]
                   ELSE UNCHANGED motor
              /\ disp' = [disp EXCEPT !.pc = "update_move"]
         ELSE /\ disp' = [disp EXCEPT !.pc = "check"]
              /\ UNCHANGED motor
    /\ UNCHANGED <<dNow, interrupt, scaleA>>
    /\ UNCHANGED nonDispVars

\* update_motor_speed, lines 111-112: relative_move(20.).expect(..); Some(now)
DUpdateMove ==
    /\ disp.pc = "update_move"
    /\ \E ok \in BOOLEAN :
         /\ motor' = MotorCmd(motor, "RM", ok)
         /\ disp' = IF ok THEN [disp EXCEPT !.pc = "check", !.lastSent = dNow]
                    ELSE Panicked(disp)
    /\ UNCHANGED <<dNow, interrupt, scaleA>>
    /\ UNCHANGED nonDispVars

\* if curr_weight < target_weight + check_offset { abrupt_stop; median of 15 }
DCheck ==
    /\ disp.pc = "check"
    /\ IF BelowCheck(disp.curr, disp.target, disp.checkOff)
         THEN /\ \E ok \in BOOLEAN :
                   motor' = [MotorCmd(motor, "AS", ok) EXCEPT !.ignored = @ \/ ~ok]
              /\ disp' = [disp EXCEPT !.pc = "gw_send", !.cont = "check_median",
                                      !.buf = <<>>]
         ELSE /\ disp' = [disp EXCEPT !.pc = "loop_top"]
              /\ UNCHANGED motor
    /\ UNCHANGED <<dNow, interrupt, scaleA>>
    /\ UNCHANGED nonDispVars

\* if check_weight < target_weight + stop_offset { retract_after; break }
DCheckDone ==
    /\ disp.pc = "check_done"
    /\ LET m == MedianOf(disp.buf) IN
       disp' = IF BelowStop(m, disp.target, disp.stopOff)
                 THEN IF disp.ra
                        THEN [disp EXCEPT !.amount = disp.init - m, !.buf = <<>>,
                                          !.cont = "none", !.pc = "ra_sv"]
                        ELSE [disp EXCEPT !.amount = disp.init - m, !.buf = <<>>,
                                          !.cont = "none",
                                          !.end = "WeightAchieved", !.pc = "final_stop"]
                 ELSE [disp EXCEPT !.buf = <<>>, !.cont = "none", !.pc = "nudge"]
    /\ UNCHANGED <<motor, dNow, interrupt, scaleA>>
    /\ UNCHANGED nonDispVars

\* retract_after: set_velocity (result unused)
DRetractAfterVelocity ==
    /\ disp.pc = "ra_sv"
    /\ \E ok \in BOOLEAN :
         motor' = [MotorCmd(motor, "SV", ok) EXCEPT !.ignored = @ \/ ~ok,
                       !.vel = IF ok THEN SpeedMilli * disp.grams ELSE @]
    /\ disp' = [disp EXCEPT !.pc = "ra_move"]
    /\ UNCHANGED <<dNow, interrupt, scaleA>>
    /\ UNCHANGED nonDispVars

\* retract_after: relative_move(-retract).await.unwrap()
DRetractAfterMove ==
    /\ disp.pc = "ra_move"
    /\ \E ok \in BOOLEAN :
         /\ motor' = MotorCmd(motor, "RM", ok)
         /\ disp' = IF ok THEN [disp EXCEPT !.pc = "ra_wait"] ELSE Panicked(disp)
    /\ UNCHANGED <<dNow, interrupt, scaleA>>
    /\ UNCHANGED nonDispVars

\* retract_after: wait_for_move(..).await.unwrap(); break WeightAchieved(..)
DRetractAfterWait ==
    /\ disp.pc = "ra_wait"
    /\ \E ok \in BOOLEAN :
         /\ motor' = MotorCmd(motor, "GS", ok)
         /\ disp' = IF ok
                      THEN [disp EXCEPT !.end = "WeightAchieved", !.pc = "final_stop"]
                      ELSE Panicked(disp)
    /\ UNCHANGED <<dNow, interrupt, scaleA>>
    /\ UNCHANGED nonDispVars

\* self.motor.relative_move(10.).await.unwrap()
DNudge ==
    /\ disp.pc = "nudge"
    /\ \E ok \in BOOLEAN :
         /\ motor' = MotorCmd(motor, "RM", ok)
         /\ disp' = IF ok THEN [disp EXCEPT !.pc = "nudge_sleep"] ELSE Panicked(disp)
    /\ UNCHANGED <<dNow, interrupt, scaleA>>
    /\ UNCHANGED nonDispVars

\* interval.tick().await; tokio::time::sleep(500 ms).await
DNudgeSleep ==
    /\ disp.pc = "nudge_sleep"
    /\ dNow' = Min(MaxTime, dNow + NudgeSleep)
    /\ disp' = [disp EXCEPT !.pc = "loop_top"]
    /\ UNCHANGED <<motor, interrupt, scaleA>>
    /\ UNCHANGED nonDispVars

\* After the loop: self.motor.abrupt_stop().await; info!(..); return ()
DFinalStop ==
    /\ disp.pc = "final_stop"
    /\ \E ok \in BOOLEAN :
         motor' = [MotorCmd(motor, "AS", ok) EXCEPT !.ignored = @ \/ ~ok]
    /\ disp' = [disp EXCEPT !.pc = "done", !.ret = "unit"]
    /\ UNCHANGED <<dNow, interrupt, scaleA>>
    /\ UNCHANGED nonDispVars

\* One entry of the log of what the timed setpoint has done.
TimedStep(cmd, arg) == [cmd |-> cmd, arg |-> arg]

\* Setpoint::Timed: set_velocity (result unused)
DTimedVelocity ==
    /\ disp.pc = "t_sv"
    /\ \E ok \in BOOLEAN :
         motor' = [MotorCmd(motor, "SV", ok) EXCEPT !.ignored = @ \/ ~ok,
                       !.vel = IF ok THEN SpeedMilli * disp.grams ELSE @]
    /\ disp' = [disp EXCEPT !.pc = "t_move",
                            !.tlog = Append(@, TimedStep("SV", SpeedMilli))]
    /\ UNCHANGED <<dNow, interrupt, scaleA>>
    /\ UNCHANGED nonDispVars

\* Setpoint::Timed: relative_move(100.).await.expect("Motor faulted")
DTimedMove ==
    /\ disp.pc = "t_move"
    /\ \E ok \in BOOLEAN :
         /\ motor' = MotorCmd(motor, "RM", ok)
         /\ disp' = IF ok
                      THEN [disp EXCEPT !.pc = "t_sleep",
                                        !.tlog = Append(@, TimedStep("RM", TimedMove))]
                      ELSE Panicked(disp)
    /\ UNCHANGED <<dNow, interrupt, scaleA>>
    /\ UNCHANGED nonDispVars

\* Setpoint::Timed: tokio::time::sleep(*d).await
DTimedSleep ==
    /\ disp.pc = "t_sleep"
    /\ dNow' = Min(MaxTime, dNow + DispTimeout)
    /\ disp' = [disp EXCEPT !.pc = "t_stop",
                            !.tlog = Append(@, TimedStep("wait", DispTimeout))]
    /\ UNCHANGED <<motor, interrupt, scaleA>>
    /\ UNCHANGED nonDispVars

\* Setpoint::Timed: self.motor.abrupt_stop().await; return ()
DTimedStop ==
    /\ disp.pc = "t_stop"
    /\ \E ok \in BOOLEAN :
         motor' = [MotorCmd(motor, "AS", ok) EXCEPT !.ignored = @ \/ ~ok]
    /\ disp' = [disp EXCEPT !.pc = "done", !.ret = "unit",
                            !.tlog = Append(@, TimedStep("AS", 0))]
    /\ UNCHANGED <<dNow, interrupt, scaleA>>
    /\ UNCHANGED nonDispVars

\* Time passes while the dispense runs.
DTick ==
    /\ disp.ret = "none"
    /\ dNow < MaxTime
    /\ dNow' = dNow + 1
    /\ UNCHANGED <<disp, motor, interrupt, scaleA>>
    /\ UNCHANGED nonDispVars

\* SIGINT arrives during the dispense: every flag registered so far is set.
\* The scale actor registered its flag when it started; the dispenser's flag
\* exists only after DRegister.
RaiseInterrupt ==
    /\ ~interrupt
    /\ disp.ret = "none"
    /\ disp.pc # "begin"
    /\ interrupt' = TRUE
    /\ scaleA' = [scaleA EXCEPT !.shutdown = TRUE]
    /\ disp' = [disp EXCEPT !.shutdown = disp.reg]
    /\ UNCHANGED <<motor, dNow>>
    /\ UNCHANGED nonDispVars

\* One cycle of the scale actor: if shutdown.load(..) { break }; live_weigh;
\* match receiver.try_recv() { Ok(cmd) => cmd.0.send(weight) .. }; tick.
\* Leaving the loop ends the actor: the receiver and any queued command with
\* its reply sender are dropped.
ScaleCycle ==
    /\ scaleA.pc = "top"
    /\ \E w \in Weights :
         scaleA' = IF scaleA.shutdown
                     THEN [scaleA EXCEPT !.pc = "exited",
                              !.req = IF @ = "queued" THEN "dropped" ELSE @]
                     ELSE IF scaleA.req = "queued"
                     THEN [scaleA EXCEPT !.req = "replied", !.val = w]
                     ELSE scaleA
    /\ scaleA' # scaleA
    /\ UNCHANGED <<disp, motor, dNow, interrupt>>
    /\ UNCHANGED nonDispVars

NextDispenser ==
    \/ DBegin
    \/ DGetWeightSend
    \/ DGetWeightRecv
    \/ DInitDone
    \/ DSetVelocity
    \/ DRetractBefore
    \/ DRetractWait
    \/ DRetractStop
    \/ DStartMove
    \/ DRegister
    \/ DAbort
    \/ DTimeout
    \/ DLoopSample
    \/ DUpdateSpeed
    \/ DUpdateMove
    \/ DCheck
    \/ DCheckDone
    \/ DRetractAfterVelocity
    \/ DRetractAfterMove
    \/ DRetractAfterWait
    \/ DNudge
    \/ DNudgeSleep
    \/ DFinalStop
    \/ DTimedVelocity
    \/ DTimedMove
    \/ DTimedSleep
    \/ DTimedStop
    \/ DTick
    \/ RaiseInterrupt
    \/ ScaleCycle

\* The MotionClient at rest.
IdleClient ==
    /\ InitClient

DispenserStart ==
    InitDispenser /\ IdleClient /\ IdleSetpoint /\ IdleServo /\ IdleEcat /\ IdleGantry
    /\ IdleScale /\ IdleHandle
    /\ IdlePace /\ IdleMedian

SpecDispenser ==
    /\ DispenserStart
    /\ [][NextDispenser]_vars

----------------------------------------------------------------------------
\* Properties of Dispenser::dispense.

EndConditions == {"WeightAchieved", "Timeout", "Failed"}

\* C5 -- Dispenser abort on interrupt: a weight-mode dispense during which the
\* interrupt was raised returns with end condition Failed and abrupt_stop as
\* the last move or stop command sent to the motor, in every interleaving
\* with the scale actor.
C5_AbortOnInterrupt ==
    (disp.mode = "Weight" /\ interrupt /\ disp.ret # "none") =>
        /\ disp.ret = "unit"
        /\ disp.end = "Failed"
        /\ motor.sent = "AS"

\* C8 -- Dispenser error mapping: a dispense during which a motor command
\* failed returns a value of the end-condition type; the failure is not
\* discarded and the task does not panic.
C8_ErrorMapping ==
    (disp.pc \in {"done", "dead"} /\ motor.err) =>
        /\ disp.ret \in EndConditions
        /\ ~motor.ignored

\* Dispenser::dispense on its own: a Timeout end condition carries
\* init_weight - curr_weight and is followed by abrupt_stop before the return.
Dispenser_TimeoutStops ==
    (disp.ret = "unit" /\ disp.end = "Timeout") =>
        /\ motor.sent = "AS"
        /\ disp.amount = disp.init - disp.curr

\* Dispenser::dispense on its own: WeightAchieved reports more than
\* grams - stop_offset.
Dispenser_AchievedAmount ==
    disp.end = "WeightAchieved" => disp.amount > disp.grams - disp.stopOff

----------------------------------------------------------------------------
(***************************************************************************)
(* Part 3: SetpointDispenser (dispenser/setpoint_dispense.rs): launch,     *)
(* dispense, dispense_complete and the sibling task update_motor_speed.    *)
(* It shares the motor record and the clock with Part 2; ScaleHandle reads *)
(* are a weight chosen from Weights.                                       *)
(***************************************************************************)

\* dispense_complete, line 59 and line 66:
\* current_weight > target_weight + self.parameters.check_offset
AboveCheck(w, target, off) == w > target + off

\* A `?` on a motor command in launch/dispense: Err(Error::Motor(..)).
MotorFailed(st) == [st EXCEPT !.pc = "returned", !.ret = "Motor"]

InitSetpoint ==
    /\ \E g \in 1..MaxGrams, co \in 0..MaxOffset, so \in 0..MaxOffset :
         sp = [pc |-> "l_enable", upc |-> "unborn", grams |-> g, checkOff |-> co,
               stopOff |-> so, start |-> 0, curr |-> 0, target |-> 0, med |-> 0,
               filt |-> 0, errNum |-> 0, flag |-> FALSE, ret |-> "none",
               val |-> 0, timedOut |-> FALSE, uDue |-> 0, uLast |-> -1,
               uGap |-> -1, uDist |-> 0]
    /\ motor = [sent |-> "none", err |-> FALSE, ignored |-> FALSE, vel |-> 0]
    /\ disp = [pc |-> "idle"]
    /\ dNow = 0
    /\ interrupt = FALSE
    /\ scaleA = [pc |-> "idle"]

\* launch: motor.enable().await?
SLaunchEnable ==
    /\ sp.pc = "l_enable"
    /\ \E ok \in BOOLEAN :
         /\ motor' = MotorCmd(motor, "EN", ok)
         /\ sp' = IF ok THEN [sp EXCEPT !.pc = "l_sv"] ELSE MotorFailed(sp)
    /\ UNCHANGED <<dNow, interrupt, scaleA>>
    /\ UNCHANGED nonSetpointVars

\* launch: motor.set_velocity(parameters.motor_speed).await?
SLaunchVelocity ==
    /\ sp.pc = "l_sv"
    /\ \E ok \in BOOLEAN :
         /\ motor' = [MotorCmd(motor, "SV", ok) EXCEPT
                         !.vel = IF ok THEN SpeedMilli * sp.grams ELSE @]
         /\ sp' = IF ok THEN [sp EXCEPT !.pc = "l_rm"] ELSE MotorFailed(sp)
    /\ UNCHANGED <<dNow, interrupt, scaleA>>
    /\ UNCHANGED nonSetpointVars

\* launch: motor.relative_move(100.).await?; starting_weight = median
SLaunchMove ==
    /\ sp.pc = "l_rm"
    /\ \E ok \in BOOLEAN, w \in Weights :
         /\ motor' = MotorCmd(motor, "RM", ok)
         /\ sp' = IF ok THEN [sp EXCEPT !.pc = "d_init", !.start = w]
                  ELSE MotorFailed(sp)
    /\ UNCHANGED <<dNow, interrupt, scaleA>>
    /\ UNCHANGED nonSetpointVars

\* dispense, lines 76-98: target, start_time, filter (LowPassFilter::new with
\* previous_weight = starting_weight), first weight, error,
\* dispense_complete flag, tokio::spawn of update_motor_speed.
SDispenseInit ==
    /\ sp.pc = "d_init"
    /\ \E w \in Weights :
         sp' = [sp EXCEPT !.target = sp.start - sp.grams, !.curr = w,
                          !.filt = sp.start,
                          !.errNum = w - (sp.start - sp.grams),
                          !.upc = "u_top", !.uDue = 0, !.pc = "dc_check"]
    /\ dNow' = 0
    /\ UNCHANGED <<motor, interrupt, scaleA>>
    /\ UNCHANGED nonSetpointVars

\* dispense_complete, lines 59-60: the check and abrupt_stop().await?
SCompleteCheck ==
    /\ sp.pc = "dc_check"
    /\ IF AboveCheck(sp.curr, sp.target, sp.checkOff)
         THEN \E ok \in BOOLEAN :
                /\ motor' = MotorCmd(motor, "AS", ok)
                /\ sp' = IF ok THEN [sp EXCEPT !.pc = "dc_median"] ELSE MotorFailed(sp)
         ELSE /\ sp' = [sp EXCEPT !.pc = "body"]
              /\ UNCHANGED motor
    /\ UNCHANGED <<dNow, interrupt, scaleA>>
    /\ UNCHANGED nonSetpointVars

\* dispense_complete, lines 61-68: median over 1 s, second comparison.
SCompleteMedian ==
    /\ sp.pc = "dc_median"
    /\ \E w \in Weights :
         sp' = IF AboveCheck(w, sp.target, sp.checkOff)
                 THEN [sp EXCEPT !.med = w, !.pc = "post_stop"]
                 ELSE [sp EXCEPT !.med = w, !.pc = "dc_nudge"]
    /\ UNCHANGED <<motor, dNow, interrupt, scaleA>>
    /\ UNCHANGED nonSetpointVars

\* dispense_complete, line 69: self.motor.relative_move(10.).await?; Ok(false)
SCompleteNudge ==
    /\ sp.pc = "dc_nudge"
    /\ \E ok \in BOOLEAN :
         /\ motor' = MotorCmd(motor, "RM", ok)
         /\ sp' = IF ok THEN [sp EXCEPT !.pc = "body"] ELSE MotorFailed(sp)
    /\ UNCHANGED <<dNow, interrupt, scaleA>>
    /\ UNCHANGED nonSetpointVars

\* Loop body, lines 102-109: filter.apply on the next weight; on timeout
\* return Err(Error::Timeout); else store the error and tick.
SLoopBody ==
    /\ sp.pc = "body"
    /\ \E w \in Weights :
         LET c == Filtered(w, sp.filt) IN
         sp' = IF TimedOut(dNow)
                 THEN [sp EXCEPT !.curr = c, !.filt = c, !.pc = "returned",
                                 !.ret = "Timeout", !.timedOut = TRUE]
                 ELSE [sp EXCEPT !.curr = c, !.filt = c, !.errNum = c - sp.target,
                                 !.pc = "dc_check"]
    /\ UNCHANGED <<motor, dNow, interrupt, scaleA>>
    /\ UNCHANGED nonSetpointVars

\* After the loop, lines 111-113: abrupt_stop().await?;
\* dispense_complete.store(true); Ok(current_weight)
SPostStop ==
    /\ sp.pc = "post_stop"
    /\ \E ok \in BOOLEAN :
         /\ motor' = MotorCmd(motor, "AS", ok)
         /\ sp' = IF ok
                    THEN [sp EXCEPT !.pc = "returned", !.flag = TRUE, !.ret = "Ok",
                                    !.val = sp.curr]
                    ELSE MotorFailed(sp)
    /\ UNCHANGED <<dNow, interrupt, scaleA>>
    /\ UNCHANGED nonSetpointVars

\* update_motor_speed, lines 123-132: the interval of 200 ms is created when
\* the task starts; leave when the flag is set; else
\* set_velocity(new_speed)? when 0.1 <= new_speed < base_speed.
\* uLast and uGap note the instant of this update and its distance from the
\* previous one.
SUpdaterTop ==
    /\ sp.upc = "u_top"
    /\ IF sp.flag
         THEN sp' = [sp EXCEPT !.upc = "u_done"] /\ UNCHANGED motor
         ELSE LET newSpeed == sp.errNum * SpeedMilli
                  st == [sp EXCEPT !.uLast = dNow,
                                   !.uGap = IF sp.uLast < 0 THEN -1 ELSE dNow - sp.uLast]
              IN
              IF newSpeed >= MinSpeedMilli * sp.grams /\ newSpeed < SpeedMilli * sp.grams
                THEN \E ok \in BOOLEAN :
                       /\ motor' = [MotorCmd(motor, "SV", ok) EXCEPT
                                       !.vel = IF ok THEN newSpeed ELSE @]
                       /\ sp' = [st EXCEPT !.upc = IF ok THEN "u_move" ELSE "u_err"]
                ELSE sp' = [st EXCEPT !.upc = "u_move"] /\ UNCHANGED motor
    /\ UNCHANGED <<dNow, interrupt, scaleA>>
    /\ UNCHANGED nonSetpointVars

\* update_motor_speed, line 135: motor.relative_move(30.).await?
SUpdaterMove ==
    /\ sp.upc = "u_move"
    /\ \E ok \in BOOLEAN :
         /\ motor' = MotorCmd(motor, "RM", ok)
         /\ sp' = [sp EXCEPT !.upc = IF ok THEN "u_tick" ELSE "u_err",
                             !.uDist = SetpointUpdateMove]
    /\ UNCHANGED <<dNow, interrupt, scaleA>>
    /\ UNCHANGED nonSetpointVars

\* update_motor_speed, line 136: interval.tick().await
SUpdaterTick ==
    /\ sp.upc = "u_tick"
    /\ dNow >= sp.uDue
    /\ sp' = [sp EXCEPT !.upc = "u_top", !.uDue = SkipNext(sp.uDue, dNow, UpdateGap)]
    /\ UNCHANGED <<motor, dNow, interrupt, scaleA>>
    /\ UNCHANGED nonSetpointVars

\* Time passes while dispense or the updater task runs.
STick ==
    /\ \/ sp.pc \in {"dc_check", "dc_median", "dc_nudge", "body", "post_stop"}
       \/ sp.upc \in {"u_top", "u_move", "u_tick"}
    /\ dNow < MaxTime
    /\ dNow' = dNow + 1
    /\ UNCHANGED <<sp, motor, interrupt, scaleA>>
    /\ UNCHANGED nonSetpointVars

NextSetpoint ==
    \/ SLaunchEnable
    \/ SLaunchVelocity
    \/ SLaunchMove
    \/ SDispenseInit
    \/ SCompleteCheck
    \/ SCompleteMedian
    \/ SCompleteNudge
    \/ SLoopBody
    \/ SPostStop
    \/ SUpdaterTop
    \/ SUpdaterMove
    \/ SUpdaterTick
    \/ STick

SetpointStart ==
    InitSetpoint /\ IdleClient /\ IdleServo /\ IdleEcat /\ IdleGantry /\ IdleScale
    /\ IdleHandle
    /\ IdlePace /\ IdleMedian

SpecSetpoint ==
    /\ SetpointStart
    /\ [][NextSetpoint]_vars

----------------------------------------------------------------------------
\* Properties of the weight-mode dispensers.

\* C6 -- Dispense timeout: a weight-mode dispense that finds its timeout
\* exceeded before the weight is achieved ends with Timeout carrying
\* init_weight minus the current filtered weight, and abrupt_stop is the last
\* move or stop command sent to the motor when it returns.
C6_TimeoutStops ==
    (sp.pc = "returned" /\ sp.timedOut) =>
        /\ sp.ret = "Timeout"
        /\ sp.val = sp.start - sp.curr
        /\ motor.sent = "AS"

\* C7 -- Check-then-confirm: a weight-mode dispense reports success only after
\* a confirmation median below target + stop_offset, so the dispensed amount
\* (initial weight minus confirmation median) exceeds grams - stop_offset.
C7_CheckThenConfirm ==
    (sp.pc = "returned" /\ sp.ret = "Ok") =>
        /\ sp.med < sp.target + sp.stopOff
        /\ sp.start - sp.med > sp.grams - sp.stopOff

----------------------------------------------------------------------------
(***************************************************************************)
(* Part 4: RelayHBridge (subsystems/linear_actuator.rs), Hatch             *)
(* (subsystems/hatch.rs) and Sealer (subsystems/sealer.rs).  One actuator  *)
(* with a forward and a reverse relay; operations run one at a time        *)
(* (&mut self).  A command the controller rejects has no effect and is     *)
(* an Err at the caller.  The clock dNow counts from star_time.            *)
(***************************************************************************)

MaxPos == 2          \* feedback readings and set points range over 0..MaxPos
ServoTimeout == 1    \* self.timeout, in clock steps

Positions == 0..MaxPos

HatchOps == {"open", "close", "timed_open", "timed_close"}
SealerOps == {"seal", "timed_move_seal"}
TimedOps == {"timed_open", "timed_close", "timed_move_seal"}

\* RelayHBridge::actuate: Pos turns output 0 on, Neg turns output 1 on, Off
\* turns output 0 off and then, only if that succeeded, output 1 off.
\* sinceOff is the history of accepted direction commands since the last Off.
Actuate(s, power, ok0, ok1) ==
    CASE power = "Pos" ->
           [s EXCEPT !.fwd = IF ok0 THEN TRUE ELSE @, !.lastCmd = "Pos",
                     !.sinceOff = IF ok0 THEN @ \cup {"Pos"} ELSE @,
                     !.rejected = ~ok0]
      [] power = "Neg" ->
           [s EXCEPT !.rev = IF ok0 THEN TRUE ELSE @, !.lastCmd = "Neg",
                     !.sinceOff = IF ok0 THEN @ \cup {"Neg"} ELSE @,
                     !.rejected = ~ok0]
      [] power = "Off" ->
           [s EXCEPT !.fwd = IF ok0 THEN FALSE ELSE @,
                     !.rev = IF ok0 /\ ok1 THEN FALSE ELSE @, !.lastCmd = "Off",
                     !.sinceOff = IF ok0 /\ ok1 THEN {} ELSE @,
                     !.rejected = ~(ok0 /\ ok1)]

\* The loop conditions: Hatch::open `>= set_point`, Hatch::close
\* `<= set_point`, Sealer::extend_actuator `<= set_point`,
\* Sealer::retract_actuator `>= set_point`.
KeepDriving(op, dir, v, setPoint) ==
    IF op \in HatchOps
      THEN IF dir = "Pos" THEN v >= setPoint ELSE v <= setPoint
      ELSE IF dir = "Pos" THEN v <= setPoint ELSE v >= setPoint

\* The operation returns r to its caller.
ServoReturn(s, r) == [s EXCEPT !.pc = "idle", !.ret = r]

\* A move or a heat step finished with Ok: Hatch operations return; seal and
\* timed_move_seal go on to the next step of their sequence.
ServoStepDone(s) ==
    IF s.op \in HatchOps \/ s.phase = 3
      THEN ServoReturn(s, "Ok")
      ELSE IF s.phase = 1
        THEN [s EXCEPT !.phase = 2, !.pc = "heat_on"]
        ELSE IF s.op = "seal"
          THEN [s EXCEPT !.phase = 3, !.pc = "abs_read", !.setPoint = s.retr]
          ELSE [s EXCEPT !.phase = 3, !.pc = "drive", !.dir = "Neg"]

InitServo ==
    /\ \E e \in Positions, r \in Positions :
         servo = [pc |-> "idle", op |-> "none", phase |-> 1, dir |-> "Pos",
                  setPoint |-> 0, ext |-> e, retr |-> r, fwd |-> FALSE,
                  rev |-> FALSE, heater |-> FALSE, lastCmd |-> "none",
                  sinceOff |-> {}, fb |-> 0, elapsed |-> 0, looping |-> FALSE,
                  timedOut |-> FALSE, rejected |-> FALSE, ret |-> "none"]
    /\ dNow = 0
    /\ IdleDispenser
    /\ IdleSetpoint

\* A caller invokes one of the public operations.
ServoCall ==
    /\ servo.pc = "idle"
    /\ \E op \in HatchOps \cup SealerOps, p \in Positions :
         /\ op \notin {"open", "close"} => p = 0
         /\ servo' = [servo EXCEPT
               !.op = op, !.phase = 1, !.ret = "none", !.timedOut = FALSE,
               !.rejected = FALSE, !.looping = FALSE, !.elapsed = 0, !.fb = 0,
               !.dir = IF op \in {"close", "timed_close"} THEN "Neg" ELSE "Pos",
               !.setPoint = IF op = "seal" THEN servo.ext ELSE p,
               !.pc = IF op = "seal" THEN "abs_read" ELSE "drive"]
    /\ dNow' = 0
    /\ UNCHANGED <<disp, motor, interrupt, scaleA, sp>>
    /\ UNCHANGED nonServoVars

\* Sealer::absolute_move: read the position, then retract, extend or Ok(()).
ServoAbsRead ==
    /\ servo.pc = "abs_read"
    /\ \E ok \in BOOLEAN, v \in Positions :
         servo' = IF ~ok
                    THEN ServoReturn([servo EXCEPT !.rejected = TRUE], "Err")
                    ELSE IF v > servo.setPoint
                      THEN [servo EXCEPT !.fb = v, !.dir = "Neg", !.pc = "drive"]
                      ELSE IF v < servo.setPoint
                        THEN [servo EXCEPT !.fb = v, !.dir = "Pos", !.pc = "drive"]
                        ELSE ServoStepDone([servo EXCEPT !.fb = v])
    /\ UNCHANGED <<dNow, disp, motor, interrupt, scaleA, sp>>
    /\ UNCHANGED nonServoVars

\* self.actuator.actuate(Pos | Neg).await?  The Sealer moves take star_time
\* after this command, the Hatch moves before it.
ServoDrive ==
    /\ servo.pc = "drive"
    /\ \E ok \in BOOLEAN :
         LET s == Actuate([servo EXCEPT !.looping = FALSE, !.timedOut = FALSE,
                                         !.elapsed = 0],
                          servo.dir, ok, ok) IN
         servo' = IF ~ok
                    THEN ServoReturn(s, "Err")
                    ELSE [s EXCEPT !.pc = IF s.op \in TimedOps THEN "sleep" ELSE "read"]
    /\ dNow' = IF servo.op \in SealerOps THEN 0 ELSE dNow
    /\ UNCHANGED <<disp, motor, interrupt, scaleA, sp>>
    /\ UNCHANGED nonServoVars

\* while self.actuator.get_feedback().await? <cmp> set_point
ServoRead ==
    /\ servo.pc = "read"
    /\ \E ok \in BOOLEAN, v \in Positions :
         servo' = IF ~ok
                    THEN ServoReturn([servo EXCEPT !.rejected = TRUE], "Err")
                    ELSE [servo EXCEPT !.fb = v,
                            !.pc = IF KeepDriving(servo.op, servo.dir, v, servo.setPoint)
                                     THEN "check" ELSE "off"]
    /\ UNCHANGED <<dNow, disp, motor, interrupt, scaleA, sp>>
    /\ UNCHANGED nonServoVars

\* A variant of the timeout check that treats expiry as an error: it returns
\* Err from inside the loop instead of breaking out to actuate(Off).
ServoCheckHard ==
    /\ servo.pc = "check"
    /\ servo' = IF dNow > ServoTimeout
                  THEN ServoReturn([servo EXCEPT !.elapsed = dNow, !.timedOut = TRUE],
                                   "Err")
                  ELSE [servo EXCEPT !.elapsed = dNow, !.looping = TRUE, !.pc = "read"]
    /\ UNCHANGED <<dNow, disp, motor, interrupt, scaleA, sp>>
    /\ UNCHANGED nonServoVars

\* Loop body: if (curr_time - star_time) > self.timeout { break };
\* tick_interval.tick().await
ServoCheck ==
    /\ servo.pc = "check"
    /\ servo' = IF dNow > ServoTimeout
                  THEN [servo EXCEPT !.elapsed = dNow, !.timedOut = TRUE, !.pc = "off"]
                  ELSE [servo EXCEPT !.elapsed = dNow, !.looping = TRUE, !.pc = "read"]
    /\ UNCHANGED <<dNow, disp, motor, interrupt, scaleA, sp>>
    /\ UNCHANGED nonServoVars

\* timed_* operations: tokio::time::sleep(time).await
ServoSleep ==
    /\ servo.pc = "sleep"
    /\ servo' = [servo EXCEPT !.pc = "off"]
    /\ UNCHANGED <<dNow, disp, motor, interrupt, scaleA, sp>>
    /\ UNCHANGED nonServoVars

\* self.actuator.actuate(HBridgeState::Off).await, the value of the move.
ServoOff ==
    /\ servo.pc = "off"
    /\ \E ok0 \in BOOLEAN, ok1 \in BOOLEAN :
         /\ ~ok0 => ok1
         /\ LET s == Actuate(servo, "Off", ok0, ok1) IN
            servo' = IF ok0 /\ ok1 THEN ServoStepDone(s) ELSE ServoReturn(s, "Err")
    /\ UNCHANGED <<dNow, disp, motor, interrupt, scaleA, sp>>
    /\ UNCHANGED nonServoVars

\* Sealer::heat: self.heater.set_state(true).await?
ServoHeatOn ==
    /\ servo.pc = "heat_on"
    /\ \E ok \in BOOLEAN :
         servo' = IF ok
                    THEN [servo EXCEPT !.heater = TRUE, !.pc = "heat_off"]
                    ELSE ServoReturn([servo EXCEPT !.rejected = TRUE], "Err")
    /\ UNCHANGED <<dNow, disp, motor, interrupt, scaleA, sp>>
    /\ UNCHANGED nonServoVars

\* Sealer::heat: sleep(dwell_time), then self.heater.set_state(false).await
ServoHeatOff ==
    /\ servo.pc = "heat_off"
    /\ \E ok \in BOOLEAN :
         servo' = IF ok
                    THEN ServoStepDone([servo EXCEPT !.heater = FALSE])
                    ELSE ServoReturn([servo EXCEPT !.rejected = TRUE], "Err")
    /\ UNCHANGED <<dNow, disp, motor, interrupt, scaleA, sp>>
    /\ UNCHANGED nonServoVars

\* Time passes while an operation runs.
ServoTick ==
    /\ servo.pc # "idle"
    /\ dNow <= ServoTimeout
    /\ dNow' = dNow + 1
    /\ UNCHANGED <<servo, disp, motor, interrupt, scaleA, sp>>
    /\ UNCHANGED nonServoVars

NextServo ==
    \/ ServoCall
    \/ ServoAbsRead
    \/ ServoDrive
    \/ ServoRead
    \/ ServoCheck
    \/ ServoSleep
    \/ ServoOff
    \/ ServoHeatOn
    \/ ServoHeatOff
    \/ ServoTick

ServoStart ==
    InitServo /\ IdleClient /\ IdleEcat /\ IdleGantry /\ IdleScale /\ IdleHandle
    /\ IdlePace /\ IdleMedian

SpecServo ==
    /\ ServoStart
    /\ [][NextServo]_vars

----------------------------------------------------------------------------
\* Properties of the Hatch and Sealer operations.

\* C9 -- Relay H-bridge exclusion: in every sequence of Hatch and Sealer
\* operations on one RelayHBridge, with any outcome of the individual
\* commands, Pos and Neg are never both commanded without an intervening Off,
\* and the forward and the reverse relay are never on at the same time.
C9_RelayExclusion ==
    /\ servo.sinceOff # {"Pos", "Neg"}
    /\ ~(servo.fwd /\ servo.rev)

----------------------------------------------------------------------------
(***************************************************************************)
(* Part 5: the EtherCAT master (controllers/ek1100_io.rs `client`) and the *)
(* IOCard handles that queue commands for it.                              *)
(***************************************************************************)

NCards == 2       \* sub-devices in the group
ImageLen == 2     \* output bytes per sub-device
ByteBits == 8     \* o[0] and i[0] are u8

Cards == 0..(NCards - 1)
Bytes == 0..(2^ByteBits - 1)
BitIdx == 0..(ByteBits - 1)

\* Bit i of x.
Bit(x, i) == (x \div 2^i) % 2

RECURSIVE BitAnd(_, _, _)
\* x & y on n bits.
BitAnd(x, y, n) ==
    IF n = 0 THEN 0
    ELSE (x % 2) * (y % 2) + 2 * BitAnd(x \div 2, y \div 2, n - 1)

RECURSIVE BitOr(_, _, _)
\* x | y on n bits.
BitOr(x, y, n) ==
    IF n = 0 THEN 0
    ELSE (IF x % 2 = 1 \/ y % 2 = 1 THEN 1 ELSE 0)
         + 2 * BitOr(x \div 2, y \div 2, n - 1)

\* !x and x << k on a u8 (k < 8: the bits shifted out are lost).
BitNot(x) == (2^ByteBits - 1) - x
Shl(x, k) == (x * 2^k) % 2^ByteBits

\* A variant that only ORs the new bit in and never clears the old one.
SetBitNoClear(old, shift, state) == BitOr(old, Shl(state, shift), ByteBits)

\* o[0] = old_state & !(1 << shift) | (u8::from(state) << shift)
SetBit(old, shift, state) ==
    BitOr(BitAnd(old, BitNot(Shl(1, shift)), ByteBits), Shl(state, shift), ByteBits)

\* Command::SetState on sub-device card: only o[0] of that card is written.
ApplySet(img, card, idx, state) ==
    [img EXCEPT ![card][1] = SetBit(@, idx, state)]

\* One SetState command applied to an arbitrary process image.
InitSetBit ==
    \E b \in Bytes, c \in Cards, i \in BitIdx, v \in {0, 1} :
       LET img == [k \in Cards |->
                     [j \in 1..ImageLen |-> IF j = 1 THEN b ELSE BitNot(b)]] IN
       ecat = [pc |-> "cmd", out |-> img, before |-> img, card |-> c, idx |-> i,
               val |-> v]

\* The SetState arm of the loop, lines 128-139.
EcatApplyOnce ==
    /\ ecat.pc = "cmd"
    /\ ecat' = [ecat EXCEPT !.pc = "applied",
                            !.out = ApplySet(ecat.out, ecat.card, ecat.idx, ecat.val)]
    /\ UNCHANGED <<clientVars, dispVars, sp, servo, gantry, scaleQ, handle, pace, mq>>

SetBitStart ==
    InitSetBit /\ IdleClient /\ IdleDispenser /\ IdleSetpoint /\ IdleServo /\ IdleGantry
    /\ IdleScale /\ IdleHandle
    /\ IdlePace /\ IdleMedian

SpecSetBit ==
    /\ SetBitStart
    /\ [][EcatApplyOnce]_vars

\* C12 -- EtherCAT single-bit update: after SetBit(card, idx, v) bit idx of the
\* card's first output byte is v, the seven other bits of that byte keep
\* their value, and every other byte of the image and every other card is
\* unchanged.
C12_SingleBit ==
    ecat.pc = "applied" =>
        /\ \A i \in BitIdx :
             Bit(ecat.out[ecat.card][1], i) =
                 IF i = ecat.idx THEN ecat.val ELSE Bit(ecat.before[ecat.card][1], i)
        /\ ecat.out[ecat.card][1] \in Bytes
        /\ \A c \in Cards, j \in 1..ImageLen :
             (c # ecat.card \/ j # 1) => ecat.out[c][j] = ecat.before[c][j]

\* SetBit(idx 3, false) has cleared bit 3 of the byte 0b10101010.
C12_Witness ==
    /\ ecat.pc = "applied"
    /\ ecat.before[ecat.card][1] = 170
    /\ ecat.idx = 3
    /\ ecat.val = 0
    /\ ecat.out[ecat.card][1] = 162

----------------------------------------------------------------------------
\* The cyclic loop of the master, lines 116-173, with its callers.

MaxCmds == 2      \* commands the callers enqueue in one behaviour
MaxTicks == 3     \* loop iterations that run tx_rx

CmdIdx == {3, 5}               \* bit indexes the callers use
CmdCards == {0, NCards - 1}    \* sub-devices the callers address
InSamples == {0, 1, 40}        \* input bytes a tx_rx may bring
GroupOrder == <<"OP", "SAFE-OP", "PRE-OP", "INIT">>

CmdIds == 1..(MaxCmds + 2)

\* The state of the master at the top of its loop with the commands q queued
\* and the first output byte of every sub-device equal to b.
EcatAtTop(b, q) ==
    [pc |-> "top", group |-> "OP", trail |-> <<"OP">>, why |-> "none",
     out |-> [k \in Cards |-> [j \in 1..ImageLen |-> IF j = 1 THEN b ELSE BitNot(b)]],
     queue |-> q, nextId |-> Len(q) + 1, lastId |-> Len(q) + MaxCmds,
     senders |-> TRUE, tick |-> 0, fresh |-> FALSE, nTxRx |-> 0, txrxAtStop |-> 0,
     applied |-> <<>>, appliedAtStop |-> 0, rx |-> [i \in CmdIds |-> "none"],
     reply |-> [i \in CmdIds |-> 0], callerPanic |-> FALSE]

\* The master after into_op and the registration of its shutdown flag.
InitEcat ==
    /\ \E b \in {0, 2^ByteBits - 1} : ecat = EcatAtTop(b, <<>>)
    /\ IdleDispenser

EcatRunning == ecat.pc \notin {"exited", "panicked"}

\* A caller's tx.send(msg).await.unwrap(): queued while the master holds the
\* receiver, a panic of the caller once the master is gone.
Enqueue(e, cmd, rxState) ==
    IF EcatRunning
      THEN [e EXCEPT !.queue = Append(@, cmd), !.nextId = @ + 1,
                     !.rx[cmd.id] = rxState]
      ELSE [e EXCEPT !.callerPanic = TRUE]

\* IOCard::set_state(card_id, idx, state)
EcatSet ==
    /\ ecat.pc # "absent" /\ ecat.senders /\ ecat.nextId <= ecat.lastId
    /\ \E c \in CmdCards, i \in CmdIdx, v \in {0, 1} :
         ecat' = Enqueue(ecat, [id |-> ecat.nextId, kind |-> "Set", card |-> c,
                                idx |-> i, val |-> v], "none")
    /\ UNCHANGED <<clientVars, dispVars, sp, servo, gantry, scaleQ, handle, pace, mq>>

\* A caller sends Command::GetState(tx) and awaits the receiver.
EcatGet ==
    /\ ecat.pc # "absent" /\ ecat.senders /\ ecat.nextId <= ecat.lastId
    /\ \E c \in CmdCards, i \in CmdIdx :
         ecat' = Enqueue(ecat, [id |-> ecat.nextId, kind |-> "Get", card |-> c,
                                idx |-> i, val |-> 0], "waiting")
    /\ UNCHANGED <<clientVars, dispVars, sp, servo, gantry, scaleQ, handle, pace, mq>>

\* The task awaiting a GetState reply is dropped: its receiver is gone.
EcatCancelGet ==
    /\ \E i \in CmdIds :
         /\ ecat.pc # "absent" /\ ecat.rx[i] = "waiting"
         /\ ecat' = [ecat EXCEPT !.rx[i] = "dropped"]
    /\ UNCHANGED <<clientVars, dispVars, sp, servo, gantry, scaleQ, handle, pace, mq>>

\* The ControllerHandle and every IOCard clone are dropped.
EcatDropSenders ==
    /\ ecat.pc # "absent" /\ ecat.senders
    /\ ecat' = [ecat EXCEPT !.senders = FALSE]
    /\ UNCHANGED <<clientVars, dispVars, sp, servo, gantry, scaleQ, handle, pace, mq>>

\* SIGINT sets the flag registered at lines 116-118.
EcatInterrupt ==
    /\ ecat.pc # "absent" /\ ~interrupt
    /\ interrupt' = TRUE
    /\ UNCHANGED <<clientVars, disp, motor, dNow, scaleA, sp, servo, actorVars, pace, mq>>

\* A variant of the break that goes from OP straight to PRE-OP.
EcatBreakSkip(e, reason) ==
    [e EXCEPT !.pc = "pre_op", !.why = reason, !.fresh = FALSE,
              !.txrxAtStop = e.nTxRx, !.appliedAtStop = Len(e.applied)]

\* The loop leaves: no tx_rx and no command after this point.
EcatBreak(e, reason) ==
    [e EXCEPT !.pc = "safe_op", !.why = reason, !.fresh = FALSE,
              !.txrxAtStop = e.nTxRx, !.appliedAtStop = Len(e.applied)]

\* Lines 121-124: if shutdown.load(Relaxed) { break }
EcatTop ==
    /\ ecat.pc = "top"
    /\ interrupt \/ ecat.tick < MaxTicks
    /\ ecat' = IF interrupt THEN EcatBreak(ecat, "shutdown")
               ELSE [ecat EXCEPT !.pc = "txrx"]
    /\ UNCHANGED <<clientVars, dispVars, sp, servo, gantry, scaleQ, handle, pace, mq>>

\* Line 125: group.tx_rx(&main_device).await.expect("Tx/Rx")
EcatTxRx ==
    /\ ecat.pc = "txrx"
    /\ \E ok \in BOOLEAN :
         ecat' = IF ok
                   THEN [ecat EXCEPT !.pc = "recv", !.fresh = TRUE, !.nTxRx = @ + 1]
                   ELSE [ecat EXCEPT !.pc = "panicked", !.queue = <<>>]
    /\ UNCHANGED <<clientVars, dispVars, sp, servo, gantry, scaleQ, handle, pace, mq>>

\* Lines 129-144 for one dequeued message: SetState writes o[0], GetState
\* sends i[0] (the byte b this tick's tx_rx brought) and unwraps the send.
ApplyCmd(e, msg, b) ==
    LET log == [id |-> msg.id, kind |-> msg.kind, tick |-> e.tick,
                fresh |-> e.fresh, behind |-> Len(e.queue) - 1] IN
    IF msg.kind = "Set"
      THEN [e EXCEPT !.queue = Tail(@), !.applied = Append(@, log),
                     !.out = ApplySet(@, msg.card, msg.idx, msg.val)]
      ELSE IF e.rx[msg.id] = "dropped"
        THEN [e EXCEPT !.queue = <<>>, !.pc = "panicked"]
        ELSE [e EXCEPT !.queue = Tail(@), !.applied = Append(@, log),
                       !.rx[msg.id] = "got", !.reply[msg.id] = b]

\* End of the loop body: tick_interval.tick().await, back to the top.
EcatNextTick(e) ==
    IF e.pc = "panicked" THEN e
    ELSE [e EXCEPT !.pc = "top", !.tick = @ + 1, !.fresh = FALSE]

\* A variant that drains the channel: a second queued command is applied in
\* the same iteration as the first.
EcatRecvDrain ==
    /\ ecat.pc = "recv"
    /\ \E b \in InSamples :
         ecat' =
           IF ecat.queue # <<>>
             THEN LET one == ApplyCmd(ecat, Head(ecat.queue), b) IN
                  IF one.pc # "panicked" /\ one.queue # <<>>
                    THEN EcatNextTick(ApplyCmd(one, Head(one.queue), b))
                    ELSE EcatNextTick(one)
             ELSE IF ~ecat.senders
               THEN EcatBreak(ecat, "disconnected")
               ELSE EcatNextTick(ecat)
    /\ UNCHANGED <<clientVars, dispVars, sp, servo, gantry, scaleQ, handle, pace, mq>>

\* Lines 127-152: match rx.try_recv(), then the tick.
EcatRecv ==
    /\ ecat.pc = "recv"
    /\ \E b \in InSamples :
         ecat' =
           IF ecat.queue # <<>>
             THEN EcatNextTick(ApplyCmd(ecat, Head(ecat.queue), b))
             ELSE IF ~ecat.senders
               THEN EcatBreak(ecat, "disconnected")
               ELSE EcatNextTick(ecat)
    /\ UNCHANGED <<clientVars, dispVars, sp, servo, gantry, scaleQ, handle, pace, mq>>

\* One state transition of the group: .expect on its result.  The receiver
\* is dropped, with what is still queued, when the task returns or panics.
IntoState(e, st, nextPc, ok) ==
    IF ok THEN [e EXCEPT !.group = st, !.trail = Append(@, st), !.pc = nextPc,
                         !.queue = IF nextPc = "exited" THEN <<>> ELSE @]
    ELSE [e EXCEPT !.pc = "panicked", !.queue = <<>>]

\* Lines 155-158: group.into_safe_op(..).await.expect("OP -> SAFE-OP")
EcatIntoSafeOp ==
    /\ ecat.pc = "safe_op"
    /\ \E ok \in BOOLEAN : ecat' = IntoState(ecat, "SAFE-OP", "pre_op", ok)
    /\ UNCHANGED <<clientVars, dispVars, sp, servo, gantry, scaleQ, handle, pace, mq>>

\* Lines 162-165: group.into_pre_op(..).await.expect("SAFE-OP -> PRE-OP")
EcatIntoPreOp ==
    /\ ecat.pc = "pre_op"
    /\ \E ok \in BOOLEAN : ecat' = IntoState(ecat, "PRE-OP", "init", ok)
    /\ UNCHANGED <<clientVars, dispVars, sp, servo, gantry, scaleQ, handle, pace, mq>>

\* Lines 169-172: group.into_init(..).await.expect("PRE-OP -> INIT"); Ok(())
EcatIntoInit ==
    /\ ecat.pc = "init"
    /\ \E ok \in BOOLEAN : ecat' = IntoState(ecat, "INIT", "exited", ok)
    /\ UNCHANGED <<clientVars, dispVars, sp, servo, gantry, scaleQ, handle, pace, mq>>

NextEcat ==
    \/ EcatSet
    \/ EcatGet
    \/ EcatCancelGet
    \/ EcatDropSenders
    \/ EcatInterrupt
    \/ EcatTop
    \/ EcatTxRx
    \/ EcatRecv
    \/ EcatIntoSafeOp
    \/ EcatIntoPreOp
    \/ EcatIntoInit

EcatStart ==
    InitEcat /\ IdleClient /\ IdleSetpoint /\ IdleServo /\ IdleGantry /\ IdleScale
    /\ IdleHandle
    /\ IdlePace /\ IdleMedian

SpecEcat ==
    /\ EcatStart
    /\ [][NextEcat]_vars

----------------------------------------------------------------------------
\* Properties of the EtherCAT master.

\* C11 -- EtherCAT command ordering: commands are applied in the order they
\* were enqueued, each after the tx_rx of its own tick, and no two in the
\* same tick.
C11_Ordering ==
    /\ \A k \in 1..Len(ecat.applied) : ecat.applied[k].fresh
    /\ \A k, l \in 1..Len(ecat.applied) :
         k < l => /\ ecat.applied[k].id < ecat.applied[l].id
                  /\ ecat.applied[k].tick < ecat.applied[l].tick
    /\ \A k \in 1..Len(ecat.queue) :
         /\ \A l \in 1..Len(ecat.applied) : ecat.applied[l].id < ecat.queue[k].id
         /\ \A l \in 1..Len(ecat.queue) : k < l => ecat.queue[k].id < ecat.queue[l].id

\* Two SetState commands that were queued together have been applied, the
\* first in one tick and the second in the next.
C11_Witness ==
    /\ Len(ecat.applied) >= 2
    /\ ecat.applied[1].id = 1 /\ ecat.applied[2].id = 2
    /\ ecat.applied[1].behind >= 1
    /\ ecat.applied[2].tick = ecat.applied[1].tick + 1
    /\ ecat.rx[1] = "none" /\ ecat.rx[2] = "none"

----------------------------------------------------------------------------
\* The master with SetState(card 0, idx 3, true) and SetState(card 0, idx 5,
\* true) queued back-to-back against all-zero output bytes.

InitRoundTrip ==
    /\ ecat = EcatAtTop(0, << [id |-> 1, kind |-> "Set", card |-> 0, idx |-> 3, val |-> 1],
                              [id |-> 2, kind |-> "Set", card |-> 0, idx |-> 5, val |-> 1] >>)
    /\ IdleDispenser

RoundTripStart ==
    InitRoundTrip /\ IdleClient /\ IdleSetpoint /\ IdleServo /\ IdleGantry /\ IdleScale
    /\ IdleHandle
    /\ IdlePace /\ IdleMedian

SpecRoundTrip ==
    /\ RoundTripStart
    /\ [][NextEcat]_vars

\* The two queued SetState commands are applied on two consecutive ticks and
\* leave the first output byte of card 0 at 0b00101000.
Ecat_TwoSetsByte ==
    (/\ Len(ecat.applied) >= 2
     /\ \A k \in 3..Len(ecat.applied) : ecat.applied[k].kind # "Set") =>
        /\ ecat.applied[2].tick = ecat.applied[1].tick + 1
        /\ ecat.out[0][1] = 40

\* C13 -- EtherCAT set/get round-trip: after SetBit(card 0, idx 3, true) and
\* SetBit(card 0, idx 5, true), issued back-to-back against an all-zero output
\* byte, have been applied the byte is 0b00101000, and a GetBit(card 0, idx 3)
\* issued afterwards and served by the master replies 1.
C13_RoundTrip ==
    [][(/\ ecat.pc = "recv"
        /\ Len(ecat.applied) = 2
        /\ ecat.applied[2].kind = "Set"
        /\ ecat.queue # <<>>
        /\ Head(ecat.queue).kind = "Get"
        /\ Head(ecat.queue).card = 0
        /\ Head(ecat.queue).idx = 3
        /\ ecat.rx[Head(ecat.queue).id] # "dropped") =>
            /\ ecat'.out[0][1] = 40
            /\ ecat'.reply[Head(ecat.queue).id] = 1]_vars

----------------------------------------------------------------------------
\* C14 -- EtherCAT shutdown: once the master has observed the shutdown flag or
\* found all command senders dropped it runs no further tx_rx and applies no
\* further command, takes the group through OP, SAFE-OP, PRE-OP, INIT in that
\* order without skipping a state and then exits; the group leaves OP in no
\* other way.
C14_Shutdown ==
    /\ \E n \in 1..Len(GroupOrder) : ecat.trail = SubSeq(GroupOrder, 1, n)
    /\ ecat.group = ecat.trail[Len(ecat.trail)]
    /\ ecat.why = "none" =>
         /\ ecat.group = "OP"
         /\ ecat.pc \in {"top", "txrx", "recv", "panicked"}
    /\ ecat.why # "none" =>
         /\ ecat.nTxRx = ecat.txrxAtStop
         /\ Len(ecat.applied) = ecat.appliedAtStop
         /\ ecat.pc \in {"safe_op", "pre_op", "init", "exited", "panicked"}
    /\ ecat.why = "shutdown" => interrupt
    /\ ecat.why = "disconnected" => ~ecat.senders
    /\ ecat.pc = "safe_op" => ecat.group = "OP"
    /\ ecat.pc = "pre_op" => ecat.group = "SAFE-OP"
    /\ ecat.pc = "init" => ecat.group = "PRE-OP"
    /\ ecat.pc = "exited" => ecat.trail = GroupOrder /\ ecat.why # "none"

\* The master exits in INIT after a shutdown that followed an applied command.
C14_Witness ==
    /\ ecat.pc = "exited"
    /\ ecat.why = "shutdown"
    /\ ecat.group = "INIT"
    /\ ecat.txrxAtStop >= 2
    /\ ecat.appliedAtStop >= 1

----------------------------------------------------------------------------
\* The MotionClient in a process that receives the interrupt.  tcp.rs
\* registers no shutdown flag: the signal raises the process-wide flag and
\* changes nothing the serve loop reads.

ClientInterrupt ==
    /\ ~interrupt
    /\ interrupt' = TRUE
    /\ UNCHANGED <<clientVars, disp, motor, dNow, scaleA, sp, servo, actorVars, pace, mq>>

NextClientSig ==
    \/ NextClient
    \/ ClientInterrupt

SpecClientSig ==
    /\ ClientStart
    /\ [][NextClientSig]_vars

\* C15 -- Process-wide interrupt: once the flag is raised, each cyclic
\* component that reaches its next tick shuts down instead of starting
\* another cycle: the motion client serve loop (also when it is waiting with
\* no request queued), the EtherCAT loop and the dispenser control loop.
C15_Interrupt ==
    [][/\ (interrupt /\ clientPc = "tick") => clientPc' \in {"tick", "closed"}
       /\ (interrupt /\ clientPc = "recv") => clientPc' \in {"recv", "closed"}
       /\ (interrupt /\ ecat.pc = "top") => ecat'.pc \in {"top", "safe_op"}
       /\ (interrupt /\ disp.pc = "loop_top" /\ disp.shutdown) =>
              disp'.pc \in {"loop_top", "final_stop"}]_vars

----------------------------------------------------------------------------
\* Part 6.  subsystems/gantry.rs: the gantry task and its requesters.

MaxGReq == 2       \* requests the callers enqueue in one behaviour
MaxPolls == 1      \* status polls of one wait that may find the motor still busy

GReqIds == 1..MaxGReq
GPositions == {0, 1}     \* positions asked for and read back

\* components/clear_core_motor.rs, enum Status, and the reply bytes get_status
\* does not know.
Status == {"Disabled", "Enabling", "Faulted", "Ready", "Moving"}
StatusReply == Status \cup {"unknown"}

\* The task as it is spawned: nothing sent to the motor, an empty channel.
InitGantry ==
    /\ gantry = [pc |-> "enable", enabled |-> FALSE, queue |-> <<>>, cur |-> 0,
                 nextId |-> 1, senders |-> TRUE, polls |-> 0,
                 events |-> <<>>,
                 reqs |-> [i \in GReqIds |-> [kind |-> "none", pos |-> 0, ahead |-> 0]],
                 rx |-> [i \in GReqIds |-> "none"],
                 reply |-> [i \in GReqIds |-> 0]]
    /\ IdleDispenser

GantryRunning == gantry.pc \notin {"done", "err", "panicked"}

\* One frame written to the motor for request r, or the reply sent to r.
\* A GS frame carries whether the status read was Moving (Enabling during
\* enable), the other frames the position written or read.
Ev(k, r, v) == [kind |-> k, req |-> r, val |-> v]

\* The requests a new one waits behind: the queued ones and the one in hand.
GantryAhead == Len(gantry.queue) + (IF gantry.cur # 0 THEN 1 ELSE 0)

\* The task ends (return or panic): rx and the queued commands are dropped,
\* so every requester still waiting finds its reply sender gone.
GantryStop(g, how) ==
    [g EXCEPT !.pc = how, !.queue = <<>>, !.cur = 0,
              !.rx = [i \in GReqIds |-> IF g.rx[i] = "waiting" THEN "closed" ELSE g.rx[i]]]

\* A requester sends GantryCommand::GoTo(GoToCmd {pos, resp}).
GantryGoTo ==
    /\ gantry.pc # "absent" /\ GantryRunning
    /\ gantry.senders /\ gantry.nextId <= MaxGReq
    /\ \E p \in GPositions :
         gantry' = [gantry EXCEPT
                      !.queue = Append(@, gantry.nextId),
                      !.reqs[gantry.nextId] =
                          [kind |-> "GoTo", pos |-> p, ahead |-> GantryAhead],
                      !.rx[gantry.nextId] = "waiting",
                      !.nextId = @ + 1]
    /\ UNCHANGED <<clientVars, dispVars, sp, servo, ecat, scaleQ, handle, pace, mq>>

\* A requester sends GantryCommand::GetPosition(sender).
GantryGetPosition ==
    /\ gantry.pc # "absent" /\ GantryRunning
    /\ gantry.senders /\ gantry.nextId <= MaxGReq
    /\ gantry' = [gantry EXCEPT
                    !.queue = Append(@, gantry.nextId),
                    !.reqs[gantry.nextId] =
                        [kind |-> "GetPosition", pos |-> 0, ahead |-> GantryAhead],
                    !.rx[gantry.nextId] = "waiting",
                    !.nextId = @ + 1]
    /\ UNCHANGED <<clientVars, dispVars, sp, servo, ecat, scaleQ, handle, pace, mq>>

\* A requester is dropped while it awaits its reply.
GantryCancel ==
    /\ gantry.pc # "absent"
    /\ \E i \in GReqIds :
         /\ gantry.rx[i] = "waiting"
         /\ gantry' = [gantry EXCEPT !.rx[i] = "dropped"]
    /\ UNCHANGED <<clientVars, dispVars, sp, servo, ecat, scaleQ, handle, pace, mq>>

\* Every Sender<GantryCommand> is dropped.
GantryDropSenders ==
    /\ gantry.pc # "absent" /\ gantry.senders
    /\ gantry' = [gantry EXCEPT !.senders = FALSE]
    /\ UNCHANGED <<clientVars, dispVars, sp, servo, ecat, scaleQ, handle, pace, mq>>

\* Line 20, motor.enable().await?: the EN frame and check_reply.
GantryEnable ==
    /\ gantry.pc = "enable"
    /\ \E ok \in BOOLEAN :
         gantry' = IF ok
                     THEN [gantry EXCEPT !.pc = "enabling",
                                         !.events = Append(@, Ev("EN", 0, 0))]
                     ELSE GantryStop([gantry EXCEPT !.events = Append(@, Ev("EN", 0, 0))],
                                     "err")
    /\ UNCHANGED <<clientVars, dispVars, sp, servo, ecat, scaleQ, handle, pace, mq>>

\* enable, clear_core_motor.rs 46-54: poll while Enabling, then one more
\* get_status; Faulted and an unknown status byte end the task with Err.
GantryEnablePoll ==
    /\ gantry.pc \in {"enabling", "enable_check"}
    /\ \E st \in StatusReply :
         /\ (st = "Enabling" /\ gantry.pc = "enabling") => gantry.polls < MaxPolls
         /\ LET g == [gantry EXCEPT !.events = Append(@, Ev("GS", 0, st = "Enabling"))] IN
            gantry' =
              IF st = "unknown" THEN GantryStop(g, "err")
              ELSE IF gantry.pc = "enabling"
                THEN IF st = "Enabling" THEN [g EXCEPT !.polls = @ + 1]
                     ELSE [g EXCEPT !.pc = "enable_check", !.polls = 0]
                ELSE IF st = "Faulted" THEN GantryStop(g, "err")
                     ELSE [g EXCEPT !.pc = "recv", !.enabled = TRUE]
    /\ UNCHANGED <<clientVars, dispVars, sp, servo, ecat, scaleQ, handle, pace, mq>>

\* A variant that takes the newest queued command instead of the oldest.
GantryRecvLast ==
    /\ gantry.pc = "recv"
    /\ gantry.queue # <<>>
    /\ LET id == gantry.queue[Len(gantry.queue)] IN
       gantry' = [gantry EXCEPT
                    !.queue = SubSeq(@, 1, Len(@) - 1), !.cur = id, !.polls = 0,
                    !.pc = IF gantry.reqs[id].kind = "GoTo" THEN "move" ELSE "getpos"]
    /\ UNCHANGED <<clientVars, dispVars, sp, servo, ecat, scaleQ, handle, pace, mq>>

\* Line 21, while let Some(cmd) = rx.recv().await, and the match at line 22.
GantryRecv ==
    /\ gantry.pc = "recv"
    /\ gantry.queue # <<>>
    /\ LET id == Head(gantry.queue) IN
       gantry' = [gantry EXCEPT
                    !.queue = Tail(@), !.cur = id, !.polls = 0,
                    !.pc = IF gantry.reqs[id].kind = "GoTo" THEN "move" ELSE "getpos"]
    /\ UNCHANGED <<clientVars, dispVars, sp, servo, ecat, scaleQ, handle, pace, mq>>

\* rx.recv() yields None: no sender is left and the channel is empty; Ok(()).
GantryRecvNone ==
    /\ gantry.pc = "recv"
    /\ gantry.queue = <<>>
    /\ ~gantry.senders
    /\ gantry' = GantryStop(gantry, "done")
    /\ UNCHANGED <<clientVars, dispVars, sp, servo, ecat, scaleQ, handle, pace, mq>>

\* sender.send(pos).unwrap(): a panic when the requester's receiver is gone.
GantrySend(g, p) ==
    IF g.rx[g.cur] = "dropped"
      THEN GantryStop(g, "panicked")
      ELSE [g EXCEPT !.events = Append(@, Ev("reply", g.cur, p)),
                     !.rx[g.cur] = "got", !.reply[g.cur] = p,
                     !.cur = 0, !.pc = "recv"]

\* get_position then the send, lines 24-25 and 33-34.
GantryReadPosition ==
    /\ gantry.pc \in {"getpos", "read"}
    /\ \E ok \in BOOLEAN, p \in GPositions :
         LET g == [gantry EXCEPT !.events =
                       Append(@, Ev("GP", gantry.cur, IF ok THEN p ELSE 0))] IN
         gantry' = IF ok THEN GantrySend(g, p) ELSE GantryStop(g, "err")
    /\ UNCHANGED <<clientVars, dispVars, sp, servo, ecat, scaleQ, handle, pace, mq>>

\* Line 28: motor.absolute_move(cmd.pos).await?
GantryMove ==
    /\ gantry.pc = "move"
    /\ \E ok \in BOOLEAN :
         LET g == [gantry EXCEPT !.events =
                       Append(@, Ev("AM", gantry.cur, gantry.reqs[gantry.cur].pos))] IN
         gantry' = IF ok THEN [g EXCEPT !.pc = "poll"] ELSE GantryStop(g, "err")
    /\ UNCHANGED <<clientVars, dispVars, sp, servo, ecat, scaleQ, handle, pace, mq>>

\* A variant of the wait that reads the position after the first status poll
\* whatever it returned.
GantryPollOnce ==
    /\ gantry.pc = "poll"
    /\ \E st \in StatusReply :
         LET g == [gantry EXCEPT !.events = Append(@, Ev("GS", gantry.cur, st = "Moving"))] IN
         gantry' = IF st = "unknown" THEN GantryStop(g, "err")
                   ELSE [g EXCEPT !.pc = "read"]
    /\ UNCHANGED <<clientVars, dispVars, sp, servo, ecat, scaleQ, handle, pace, mq>>

\* Lines 30-32: while motor.get_status().await? == Status::Moving { sleep }
GantryPoll ==
    /\ gantry.pc = "poll"
    /\ \E st \in StatusReply :
         /\ st = "Moving" => gantry.polls < MaxPolls
         /\ LET g == [gantry EXCEPT !.events = Append(@, Ev("GS", gantry.cur, st = "Moving"))] IN
            gantry' = IF st = "unknown" THEN GantryStop(g, "err")
                      ELSE IF st = "Moving" THEN [g EXCEPT !.polls = @ + 1]
                      ELSE [g EXCEPT !.pc = "read"]
    /\ UNCHANGED <<clientVars, dispVars, sp, servo, ecat, scaleQ, handle, pace, mq>>

NextGantry ==
    \/ GantryGoTo
    \/ GantryGetPosition
    \/ GantryCancel
    \/ GantryDropSenders
    \/ GantryEnable
    \/ GantryEnablePoll
    \/ GantryRecv
    \/ GantryRecvNone
    \/ GantryReadPosition
    \/ GantryMove
    \/ GantryPoll

GantryStart ==
    InitGantry /\ IdleClient /\ IdleSetpoint /\ IdleServo /\ IdleEcat /\ IdleScale
    /\ IdleHandle
    /\ IdlePace /\ IdleMedian

SpecGantry ==
    /\ GantryStart
    /\ [][NextGantry]_vars

----------------------------------------------------------------------------
\* Properties of the gantry.

GEvents == gantry.events
GEvIdx == 1..Len(GEvents)

\* C16 -- Gantry serialization: the gantry handles one request at a time in
\* queue order; no motor frame of a later request is sent before the reply of
\* the request before it, so the frames of two requests never interleave.
C16_Serialized ==
    /\ \A a, b \in GEvIdx :
         (a < b /\ GEvents[a].req > 0) =>
            /\ GEvents[a].req <= GEvents[b].req
            /\ GEvents[a].kind = "reply" => GEvents[a].req < GEvents[b].req
            /\ GEvents[a].req < GEvents[b].req =>
                 \E c \in a..(b - 1) :
                    GEvents[c].kind = "reply" /\ GEvents[c].req = GEvents[a].req
    /\ \A a \in GEvIdx :
         /\ gantry.cur # 0 =>
              /\ GEvents[a].req <= gantry.cur
              /\ ~(GEvents[a].kind = "reply" /\ GEvents[a].req = gantry.cur)
         /\ \A k \in 1..Len(gantry.queue) : GEvents[a].req < gantry.queue[k]
    /\ \A k \in 1..Len(gantry.queue) :
         /\ gantry.cur < gantry.queue[k]
         /\ \A m \in 1..(k - 1) : gantry.queue[m] < gantry.queue[k]

\* Two requesters were waiting at the same time and both were answered.
C16_Witness ==
    /\ gantry.reqs[1].kind = "GoTo"
    /\ gantry.reqs[2].kind = "GetPosition"
    /\ gantry.reqs[2].ahead = 1
    /\ gantry.rx[1] = "got"
    /\ gantry.rx[2] = "got"

\* C17 -- Gantry GoTo: the motor is enabled before any request is handled;
\* each GoTo starts with absolute_move(position), its reply is sent only after
\* a status poll issued after the move returned a status other than Moving,
\* and the value replied is the position read after that poll.
C17_GoTo ==
    /\ (gantry.cur # 0 \/ \E a \in GEvIdx : GEvents[a].req > 0) =>
         /\ gantry.enabled
         /\ GEvents[1] = Ev("EN", 0, 0)
    /\ \A a \in GEvIdx :
         LET r == GEvents[a].req IN
         (r > 0 /\ gantry.reqs[r].kind = "GoTo") =>
            /\ GEvents[a - 1].req # r =>
                 GEvents[a] = Ev("AM", r, gantry.reqs[r].pos)
            /\ GEvents[a].kind = "AM" => GEvents[a - 1].req # r
            /\ GEvents[a].kind = "GS" => GEvents[a - 1].kind \in {"AM", "GS"}
            /\ GEvents[a].kind = "GP" => GEvents[a - 1] = Ev("GS", r, FALSE)
            /\ GEvents[a].kind = "reply" =>
                 /\ GEvents[a - 1] = Ev("GP", r, GEvents[a].val)
                 /\ gantry.reply[r] = GEvents[a].val

\* A GoTo answered after a poll that found the motor still moving, with a
\* position other than the one asked for.
C17_Witness ==
    /\ gantry.reqs[1].kind = "GoTo"
    /\ gantry.reqs[1].pos = 1
    /\ gantry.rx[1] = "got"
    /\ gantry.reply[1] = 0
    /\ \E a \in GEvIdx : GEvents[a] = Ev("GS", 1, TRUE)

----------------------------------------------------------------------------
\* Part 7.  components/scale.rs: the scale actor with several requesters.

MaxSReq == 2       \* weight queries the requesters send in one behaviour
MaxCycles == 3     \* loop iterations that take a reading

SReqIds == 1..MaxSReq
ScaleReadings == {10, 20}    \* weights live_weigh may return

\* The actor as it is spawned by actor_tx_pair: not yet connected.
InitScale ==
    /\ scaleQ = [pc |-> "connect", cycle |-> 0, reads |-> <<>>, queue |-> <<>>,
                 nextId |-> 1, senders |-> TRUE, readErr |-> FALSE,
                 rx |-> [i \in SReqIds |-> "none"],
                 reply |-> [i \in SReqIds |-> [cycle |-> 0, val |-> 0]]]
    /\ IdleDispenser

ScaleRunning == scaleQ.pc \notin {"exited", "panicked"}

\* The actor ends (return or panic): the receiver and the queued commands are
\* dropped, so every requester still waiting finds its reply sender gone.
ScaleStop(a, how) ==
    [a EXCEPT !.pc = how, !.queue = <<>>,
              !.rx = [i \in SReqIds |-> IF a.rx[i] = "waiting" THEN "closed" ELSE a.rx[i]]]

\* Dispenser::get_weight: scale_tx.send(ScaleCmd(rep_tx)).await
ScaleSend ==
    /\ scaleQ.pc # "absent" /\ ScaleRunning
    /\ scaleQ.senders /\ scaleQ.nextId <= MaxSReq
    /\ scaleQ' = [scaleQ EXCEPT !.queue = Append(@, scaleQ.nextId),
                                !.rx[scaleQ.nextId] = "waiting",
                                !.nextId = @ + 1]
    /\ UNCHANGED <<clientVars, dispVars, sp, servo, ecat, gantry, handle, pace, mq>>

\* A requester is dropped while it awaits rep_rx.
ScaleCancel ==
    /\ scaleQ.pc # "absent"
    /\ \E i \in SReqIds :
         /\ scaleQ.rx[i] = "waiting"
         /\ scaleQ' = [scaleQ EXCEPT !.rx[i] = "dropped"]
    /\ UNCHANGED <<clientVars, dispVars, sp, servo, ecat, gantry, handle, pace, mq>>

\* Every Sender<ScaleCmd> is dropped.
ScaleDropSenders ==
    /\ scaleQ.pc # "absent" /\ scaleQ.senders
    /\ scaleQ' = [scaleQ EXCEPT !.senders = FALSE]
    /\ UNCHANGED <<clientVars, dispVars, sp, servo, ecat, gantry, handle, pace, mq>>

\* SIGINT once the actor has registered its flag (lines 161-163).
ScaleInterrupt ==
    /\ scaleQ.pc \notin {"absent", "connect"} /\ ~interrupt
    /\ interrupt' = TRUE
    /\ UNCHANGED <<clientVars, disp, motor, dNow, scaleA, sp, servo, actorVars, pace, mq>>

\* Line 157: scale.connect().expect("Failed to connect LC")
ScaleConnect ==
    /\ scaleQ.pc = "connect"
    /\ \E ok \in BOOLEAN :
         scaleQ' = IF ok THEN [scaleQ EXCEPT !.pc = "top"]
                   ELSE ScaleStop(scaleQ, "panicked")
    /\ UNCHANGED <<clientVars, dispVars, sp, servo, ecat, gantry, handle, pace, mq>>

\* Lines 166-168: if shutdown.load(Relaxed) { break }, then Ok(()).
ScaleTop ==
    /\ scaleQ.pc = "top"
    /\ interrupt \/ scaleQ.cycle < MaxCycles
    /\ scaleQ' = IF interrupt THEN ScaleStop(scaleQ, "exited")
                 ELSE [scaleQ EXCEPT !.pc = "weigh"]
    /\ UNCHANGED <<clientVars, dispVars, sp, servo, ecat, gantry, handle, pace, mq>>

\* Lines 170-172: spawn_blocking(move || Scale::live_weigh(scale).unwrap())
\* .await.unwrap(); a load-cell read error panics in get_readings (line 54)
\* inside the blocking task and the join error is unwrapped by the actor.
ScaleWeigh ==
    /\ scaleQ.pc = "weigh"
    /\ \E ok \in BOOLEAN, w \in ScaleReadings :
         scaleQ' = IF ok THEN [scaleQ EXCEPT !.pc = "recv", !.reads = Append(@, w)]
                   ELSE ScaleStop([scaleQ EXCEPT !.readErr = TRUE], "panicked")
    /\ UNCHANGED <<clientVars, dispVars, sp, servo, ecat, gantry, handle, pace, mq>>

\* Line 177 for one dequeued command: cmd.0.send(weight).unwrap()
ScaleReply(a) ==
    LET id == Head(a.queue) IN
    IF a.rx[id] = "dropped"
      THEN ScaleStop(a, "panicked")
      ELSE [a EXCEPT !.queue = Tail(@), !.rx[id] = "got",
                     !.reply[id] = [cycle |-> Len(a.reads), val |-> a.reads[Len(a.reads)]]]

\* Line 185: tick_interval.tick().await, back to the top.
ScaleNextTick(a) ==
    IF a.pc = "panicked" THEN a ELSE [a EXCEPT !.pc = "top", !.cycle = @ + 1]

RECURSIVE ScaleReplyAll(_)
ScaleReplyAll(a) ==
    IF a.pc = "panicked" \/ a.queue = <<>> THEN a ELSE ScaleReplyAll(ScaleReply(a))

\* A variant that answers every queued request with the reading in hand.
ScaleTryRecvAll ==
    /\ scaleQ.pc = "recv"
    /\ scaleQ' = IF scaleQ.queue # <<>> THEN ScaleNextTick(ScaleReplyAll(scaleQ))
                 ELSE IF ~scaleQ.senders THEN ScaleStop(scaleQ, "exited")
                 ELSE ScaleNextTick(scaleQ)
    /\ UNCHANGED <<clientVars, dispVars, sp, servo, ecat, gantry, handle, pace, mq>>

\* Lines 174-185: match receiver.try_recv(), then the tick.
ScaleTryRecv ==
    /\ scaleQ.pc = "recv"
    /\ scaleQ' = IF scaleQ.queue # <<>> THEN ScaleNextTick(ScaleReply(scaleQ))
                 ELSE IF ~scaleQ.senders THEN ScaleStop(scaleQ, "exited")
                 ELSE ScaleNextTick(scaleQ)
    /\ UNCHANGED <<clientVars, dispVars, sp, servo, ecat, gantry, handle, pace, mq>>

NextScale ==
    \/ ScaleSend
    \/ ScaleCancel
    \/ ScaleDropSenders
    \/ ScaleInterrupt
    \/ ScaleConnect
    \/ ScaleTop
    \/ ScaleWeigh
    \/ ScaleTryRecv

ScaleStart ==
    InitScale /\ IdleClient /\ IdleSetpoint /\ IdleServo /\ IdleEcat /\ IdleGantry
    /\ IdleHandle
    /\ IdlePace /\ IdleMedian

SpecScale ==
    /\ ScaleStart
    /\ [][NextScale]_vars

\* C18 -- Scale push mode: the actor takes a reading in every cycle whether or
\* not a request is queued and never waits for one; it answers at most one
\* queued request per cycle, in queue order, and each reply carries the
\* reading of the cycle in which its request was dequeued, so no reading is
\* handed to two requesters.
C18_PushMode ==
    /\ Len(scaleQ.reads) = scaleQ.cycle + (IF scaleQ.pc = "recv" THEN 1 ELSE 0)
         \/ ~ScaleRunning
    /\ \A i \in SReqIds :
         scaleQ.rx[i] = "got" =>
            /\ scaleQ.reply[i].cycle \in 1..Len(scaleQ.reads)
            /\ scaleQ.reply[i].val = scaleQ.reads[scaleQ.reply[i].cycle]
            /\ \A j \in SReqIds :
                 (i < j /\ scaleQ.rx[j] = "got") =>
                    scaleQ.reply[i].cycle < scaleQ.reply[j].cycle
            /\ \A k \in 1..Len(scaleQ.queue) : i < scaleQ.queue[k]
    /\ \A k \in 1..Len(scaleQ.queue) :
         \A m \in 1..(k - 1) : scaleQ.queue[m] < scaleQ.queue[k]

\* Two requests that were queued together are answered in two consecutive
\* cycles with two different readings, after a cycle that served nobody.
C18_Witness ==
    /\ scaleQ.rx[1] = "got"
    /\ scaleQ.rx[2] = "got"
    /\ scaleQ.reply[1].cycle = 2
    /\ scaleQ.reply[2].cycle = 3
    /\ scaleQ.reply[1].val # scaleQ.reply[2].val

\* C19 -- Scale failure semantics: a load-cell read error during a weight
\* query is returned to the requester of that query and the actor keeps
\* serving; it does not end the actor and takes no reply channel away from a
\* waiting requester.
C19_ReadError ==
    scaleQ.readErr =>
        /\ scaleQ.pc # "panicked"
        /\ \A i \in SReqIds : scaleQ.rx[i] # "closed"

\* C20 -- Cancel safety: a reply sent to a requester whose one-shot receiver
\* is gone has no side effect on the serving actor: the scale actor, the
\* EtherCAT master and the gantry do not end on it.
C20_CancelSafe ==
    [][/\ (/\ scaleQ.pc = "recv"
           /\ scaleQ.queue # <<>>
           /\ scaleQ.rx[Head(scaleQ.queue)] = "dropped") => scaleQ'.pc # "panicked"
       /\ (/\ ecat.pc = "recv"
           /\ ecat.queue # <<>>
           /\ Head(ecat.queue).kind = "Get"
           /\ ecat.rx[Head(ecat.queue).id] = "dropped") => ecat'.pc # "panicked"
       /\ (/\ gantry.pc \in {"getpos", "read"}
           /\ gantry.rx[gantry.cur] = "dropped") => gantry'.pc # "panicked"]_vars

----------------------------------------------------------------------------
\* Part 8.  util/utils.rs: num_to_bytes and ascii_to_int, and
\* ClearCoreMotor::get_position, which decodes a reply with ascii_to_int.

MaxLen == 3        \* longest byte sequence handed to ascii_to_int
MaxN == 120        \* numbers encoded range over -MaxN..MaxN
MaxId == 2         \* motor ids range over 0..MaxId

Minus == 45        \* b'-'
Zero == 48         \* b'0'
Nine == 57         \* b'9'
Ten == 10

\* Bytes the sequences are made of: STX, CR, '-', '0', '1', '3', '?'.
SampleBytes == {2, 13, 45, 48, 49, 51, 63}

RECURSIVE SeqsUpTo(_, _)
SeqsUpTo(S, n) ==
    IF n = 0 THEN {<<>>}
    ELSE LET shorter == SeqsUpTo(S, n - 1) IN
         shorter \cup {Append(q, x) : q \in shorter, x \in S}

\* number.to_string() for a non-negative integer: its decimal digits.
RECURSIVE DigitsOf(_)
DigitsOf(n) ==
    IF n < Ten THEN <<Zero + n>>
    ELSE Append(DigitsOf(n \div Ten), Zero + (n % Ten))

\* A variant of num_to_bytes that leaves the sign out.
num_to_bytes_unsigned(number) ==
    IF number < 0 THEN DigitsOf(-number) ELSE DigitsOf(number)

\* Lines 27-29: number.to_string().chars().map(|c| c as u8).collect()
num_to_bytes(number) ==
    IF number < 0 THEN <<Minus>> \o DigitsOf(-number) ELSE DigitsOf(number)

\* Lines 37-45: the fold over every byte that passes the filter 48..=57.
RECURSIVE DigitFold(_, _)
DigitFold(bytes, acc) ==
    IF bytes = <<>> THEN acc
    ELSE IF Head(bytes) \in Zero..Nine
      THEN DigitFold(Tail(bytes), acc * Ten + (Head(bytes) - Zero))
      ELSE DigitFold(Tail(bytes), acc)

\* Lines 35-47.  bytes[0] is read first: an empty slice panics.
ascii_to_int(bytes) ==
    IF bytes = <<>> THEN [panic |-> TRUE, val |-> 0]
    ELSE LET sign == IF bytes[1] = Minus THEN -1 ELSE 1 IN
         [panic |-> FALSE, val |-> DigitFold(bytes, 0) * sign]

\* The GP reply of motor id reporting position n: header, payload, CR and
\* the unused rest of the 100-byte read buffer.
GPReply(id, n) == <<2, 77, Zero + id>> \o num_to_bytes(n) \o <<13, 0>>

\* clear_core_motor.rs 179-184: check_reply, then ascii_to_int over the whole
\* reply; the division by scale is left to the reader of val.
get_position(res) ==
    IF res[4] = 63 THEN [panic |-> FALSE, err |-> TRUE, val |-> 0]
    ELSE [panic |-> ascii_to_int(res).panic, err |-> FALSE, val |-> ascii_to_int(res).val]

\* One input of each kind: a byte sequence for ascii_to_int, a number for
\* num_to_bytes, a GP reply for get_position.
InitCodec ==
    /\ \/ \E b \in SeqsUpTo(SampleBytes, MaxLen) :
             handle = [pc |-> "bytes", n |-> 0, id |-> 0, bytes |-> b,
                       res |-> [panic |-> FALSE, val |-> 0]]
       \/ \E n \in (-MaxN)..MaxN :
             handle = [pc |-> "number", n |-> n, id |-> 0, bytes |-> <<>>,
                       res |-> [panic |-> FALSE, val |-> 0]]
       \/ \E n \in (-MaxN)..MaxN, id \in 0..MaxId :
             handle = [pc |-> "reply", n |-> n, id |-> id, bytes |-> GPReply(id, n),
                       res |-> [panic |-> FALSE, val |-> 0]]
    /\ IdleDispenser

\* ascii_to_int applied to the byte sequence.
CodecParse ==
    /\ handle.pc = "bytes"
    /\ handle' = [handle EXCEPT !.pc = "parsed", !.res = ascii_to_int(handle.bytes)]
    /\ UNCHANGED <<clientVars, dispVars, sp, servo, ecat, gantry, scaleQ, pace, mq>>

\* num_to_bytes applied to the number.
CodecEncode ==
    /\ handle.pc = "number"
    /\ handle' = [handle EXCEPT !.pc = "encoded", !.bytes = num_to_bytes(handle.n)]
    /\ UNCHANGED <<clientVars, dispVars, sp, servo, ecat, gantry, scaleQ, pace, mq>>

\* ascii_to_int applied to what num_to_bytes produced.
CodecDecode ==
    /\ handle.pc = "encoded"
    /\ handle' = [handle EXCEPT !.pc = "decoded", !.res = ascii_to_int(handle.bytes)]
    /\ UNCHANGED <<clientVars, dispVars, sp, servo, ecat, gantry, scaleQ, pace, mq>>

\* get_position applied to the GP reply.
CodecGetPosition ==
    /\ handle.pc = "reply"
    /\ handle' = [handle EXCEPT !.pc = "position",
                                !.res = [panic |-> get_position(handle.bytes).panic,
                                         val |-> get_position(handle.bytes).val]]
    /\ UNCHANGED <<clientVars, dispVars, sp, servo, ecat, gantry, scaleQ, pace, mq>>

NextCodec ==
    \/ CodecParse
    \/ CodecEncode
    \/ CodecDecode
    \/ CodecGetPosition

CodecStart ==
    InitCodec /\ IdleClient /\ IdleSetpoint /\ IdleServo /\ IdleEcat /\ IdleGantry
    /\ IdleScale
    /\ IdlePace /\ IdleMedian

SpecCodec ==
    /\ CodecStart
    /\ [][NextCodec]_vars

----------------------------------------------------------------------------
\* Properties of the codec.

\* The value of the maximal leading run of ASCII digits of bytes.
RECURSIVE LeadingRun(_, _)
LeadingRun(bytes, acc) ==
    IF bytes = <<>> \/ Head(bytes) \notin Zero..Nine THEN acc
    ELSE LeadingRun(Tail(bytes), acc * Ten + (Head(bytes) - Zero))

\* An optional leading '-' followed by the maximal leading run of digits.
PrefixValue(bytes) ==
    IF bytes[1] = Minus THEN -LeadingRun(Tail(bytes), 0) ELSE LeadingRun(bytes, 0)

\* C25 -- get_position decoding: for every motor id and every signed position
\* the controller reports, get_position returns the signed decimal number of
\* the payload of the GP reply (divided by scale); the echoed id digit
\* contributes no digit and a leading '-' of the payload gives a negative
\* position.
C25_GetPosition ==
    handle.pc = "position" =>
        /\ ~handle.res.panic
        /\ handle.res.val = handle.n

\* C28 -- parse_signed prefix rule: ascii_to_int returns the value of an
\* optional leading '-' followed by the maximal leading run of ASCII digits;
\* bytes after the first non-digit byte never change the result.
C28_PrefixRule ==
    (handle.pc = "parsed" /\ handle.bytes # <<>>) =>
        handle.res.val = PrefixValue(handle.bytes)

\* C29 -- Codec round-trip: for every integer n in range, negative or not,
\* ascii_to_int(num_to_bytes(n)) = n, and num_to_bytes(n) is the decimal
\* digits of n without leading zeros, with a '-' prefix for negative n.
C29_RoundTrip ==
    /\ handle.pc = "decoded" =>
         /\ ~handle.res.panic
         /\ handle.res.val = handle.n
    /\ handle.pc \in {"encoded", "decoded"} =>
         LET d == IF handle.n < 0 THEN Tail(handle.bytes) ELSE handle.bytes IN
         /\ handle.n < 0 => handle.bytes[1] = Minus
         /\ Len(d) >= 1
         /\ \A k \in 1..Len(d) : d[k] \in Zero..Nine
         /\ Len(d) > 1 => d[1] # Zero
         /\ LeadingRun(d, 0) = (IF handle.n < 0 THEN -handle.n ELSE handle.n)

\* -105 encoded as '-', '1', '0', '5' and decoded again.
C29_Witness ==
    /\ handle.pc = "decoded"
    /\ handle.n = -105
    /\ handle.bytes = <<45, 49, 48, 53>>
    /\ handle.res.val = -105

\* C30 -- parse_signed totality: for every byte sequence, the empty one and
\* those without a digit included, ascii_to_int returns an integer without
\* failing, and it returns 0 when the sequence holds no digit.
C30_Total ==
    handle.pc = "parsed" =>
        /\ ~handle.res.panic
        /\ (\A k \in 1..Len(handle.bytes) : handle.bytes[k] \notin Zero..Nine) =>
               handle.res.val = 0

----------------------------------------------------------------------------
\* Part 9.  components/clear_core_io.rs and clear_core_motor.rs: the frame
\* each device handle hands to the MotionClient.

MaxV == 6          \* values range over -MaxV..MaxV quarters

STX == 2
CR == 13
Quarter == 4       \* values are multiples of 1/4, which f64 holds exactly

Scales == {1, 3, 800}
DeviceIds == 0..MaxId
Values == (-MaxV)..MaxV

\* utils.rs 23-25 and 31-33.
int_to_byte(number) == number + Zero
make_prefix(device_type, device_id) == <<STX, device_type, device_id + Zero>>

\* f64::trunc followed by `as isize`, on the exact quotient a / b.
TruncDiv(a, b) == IF a >= 0 THEN a \div b ELSE -((-a) \div b)

\* DigitalInput::new and AnalogInput::new, lines 15 and 39: the get command.
InputCmd(id) == <<STX, 73, int_to_byte(id), CR>>

\* DigitalOutput::new and command_builder, lines 65-80: two arrays of nine
\* bytes, each sent whole.
OutputCmd(id, state) ==
    IF state THEN <<STX, 79, int_to_byte(id), 51, 50, 55, 48, 48, CR>>
    ELSE <<STX, 79, int_to_byte(id), 48, CR, 0, 0, 0, 0>>

\* HBridge::command_builder, lines 117-128.
HBridgeCmd(id, power, state) ==
    <<STX, 79, int_to_byte(id)>>
        \o num_to_bytes(CASE state = "Pos" -> power
                          [] state = "Neg" -> -power
                          [] OTHER -> 0)
        \o <<13>>

\* The motor operations whose frame is a fixed array of six bytes.
FixedOps == {"enable", "disable", "abrupt_stop", "stop", "get_status",
             "get_position", "clear_alerts"}

\* The motor operations that multiply an f64 by scale and truncate.
ScaledOps == {"absolute_move", "relative_move", "jog", "set_velocity",
              "set_acceleration", "set_deceleration"}

\* The two opcode letters of each motor operation.
Opcode(op) ==
    CASE op = "enable" -> <<69, 78>>
      [] op = "disable" -> <<68, 69>>
      [] op = "abrupt_stop" -> <<65, 83>>
      [] op = "stop" -> <<83, 84>>
      [] op = "get_status" -> <<71, 83>>
      [] op = "get_position" -> <<71, 80>>
      [] op = "clear_alerts" -> <<67, 65>>
      [] op = "absolute_move" -> <<65, 77>>
      [] op = "relative_move" -> <<82, 77>>
      [] op = "jog" -> <<74, 71>>
      [] op = "set_position" -> <<83, 80>>
      [] op = "set_velocity" -> <<83, 86>>
      [] op = "set_acceleration" -> <<83, 65>>
      [] op = "set_deceleration" -> <<83, 68>>

\* e.g. line 43: [2, b'M', self.id + 48, b'E', b'N', 13]
MotorFixedCmd(id, op) == <<2, 77, id + Zero>> \o Opcode(op) \o <<13>>

\* A set_velocity that passes negative velocities on.
VelocityNoClamp(velocity) == velocity

\* Lines 128-130: if velocity < 0. { velocity = 0. }
VelocityClamp(velocity) == IF velocity < 0 THEN 0 ELSE velocity

\* Lines 65-99 and 127-164: prefix, opcode, num_to_bytes((value * scale)
\* .trunc() as isize), 13.  value is v quarters.
MotorScaledCmd(id, op, v, scale) ==
    LET value == IF op = "set_velocity" THEN VelocityClamp(v) ELSE v IN
    make_prefix(77, id) \o Opcode(op)
        \o num_to_bytes(TruncDiv(value * scale, Quarter)) \o <<13>>

\* Lines 115-125: set_position multiplies two integers.
MotorSetPositionCmd(id, position, scale) ==
    make_prefix(77, id) \o Opcode("set_position")
        \o num_to_bytes(position * scale) \o <<13>>

\* A handle and the operation called on it; no frame built yet.
FrameCall(dev, op, id, v, scale) ==
    [pc |-> "call", dev |-> dev, op |-> op, id |-> id, v |-> v, scale |-> scale,
     frame |-> <<>>]

InitFrames ==
    /\ \/ \E dev \in {"DigitalInput", "AnalogInput"}, id \in DeviceIds :
             handle = FrameCall(dev, "get_state", id, 0, 1)
       \/ \E op \in {"on", "off"}, id \in DeviceIds :
             handle = FrameCall("DigitalOutput", op, id, 0, 1)
       \/ \E op \in {"Pos", "Neg", "Off"}, id \in DeviceIds, power \in {32000, 32700} :
             handle = FrameCall("HBridge", op, id, power, 1)
       \/ \E op \in FixedOps, id \in DeviceIds :
             handle = FrameCall("Motor", op, id, 0, 1)
       \/ \E op \in ScaledOps \cup {"set_position"}, id \in DeviceIds,
             v \in Values, scale \in Scales :
             handle = FrameCall("Motor", op, id, v, scale)
    /\ IdleDispenser

FrameInput ==
    /\ handle.pc = "call" /\ handle.dev \in {"DigitalInput", "AnalogInput"}
    /\ handle' = [handle EXCEPT !.pc = "built", !.frame = InputCmd(handle.id)]
    /\ UNCHANGED <<clientVars, dispVars, sp, servo, ecat, gantry, scaleQ, pace, mq>>

FrameOutput ==
    /\ handle.pc = "call" /\ handle.dev = "DigitalOutput"
    /\ handle' = [handle EXCEPT !.pc = "built",
                                !.frame = OutputCmd(handle.id, handle.op = "on")]
    /\ UNCHANGED <<clientVars, dispVars, sp, servo, ecat, gantry, scaleQ, pace, mq>>

FrameHBridge ==
    /\ handle.pc = "call" /\ handle.dev = "HBridge"
    /\ handle' = [handle EXCEPT !.pc = "built",
                                !.frame = HBridgeCmd(handle.id, handle.v, handle.op)]
    /\ UNCHANGED <<clientVars, dispVars, sp, servo, ecat, gantry, scaleQ, pace, mq>>

FrameMotorFixed ==
    /\ handle.pc = "call" /\ handle.dev = "Motor" /\ handle.op \in FixedOps
    /\ handle' = [handle EXCEPT !.pc = "built",
                                !.frame = MotorFixedCmd(handle.id, handle.op)]
    /\ UNCHANGED <<clientVars, dispVars, sp, servo, ecat, gantry, scaleQ, pace, mq>>

FrameMotorScaled ==
    /\ handle.pc = "call" /\ handle.dev = "Motor" /\ handle.op \in ScaledOps
    /\ handle' = [handle EXCEPT !.pc = "built",
                    !.frame = MotorScaledCmd(handle.id, handle.op, handle.v, handle.scale)]
    /\ UNCHANGED <<clientVars, dispVars, sp, servo, ecat, gantry, scaleQ, pace, mq>>

FrameMotorSetPosition ==
    /\ handle.pc = "call" /\ handle.dev = "Motor" /\ handle.op = "set_position"
    /\ handle' = [handle EXCEPT !.pc = "built",
                    !.frame = MotorSetPositionCmd(handle.id, handle.v, handle.scale)]
    /\ UNCHANGED <<clientVars, dispVars, sp, servo, ecat, gantry, scaleQ, pace, mq>>

NextFrames ==
    \/ FrameInput
    \/ FrameOutput
    \/ FrameHBridge
    \/ FrameMotorFixed
    \/ FrameMotorScaled
    \/ FrameMotorSetPosition

FramesStart ==
    InitFrames /\ IdleClient /\ IdleSetpoint /\ IdleServo /\ IdleEcat /\ IdleGantry
    /\ IdleScale
    /\ IdlePace /\ IdleMedian

SpecFrames ==
    /\ FramesStart
    /\ [][NextFrames]_vars

\* The type byte of each kind of handle: 'I', 'O', 'M'.
TypeByteOf(dev) ==
    CASE dev \in {"DigitalInput", "AnalogInput"} -> 73
      [] dev \in {"DigitalOutput", "HBridge"} -> 79
      [] OTHER -> 77

\* C26 -- Command frame invariant: every frame a device handle hands to the
\* MotionClient begins with STX, has CR as its last byte, and carries the type
\* byte and the id digit of the handle in its bytes 1 and 2.
C26_FrameShape ==
    handle.pc = "built" =>
        /\ handle.frame[1] = STX
        /\ handle.frame[Len(handle.frame)] = CR
        /\ handle.frame[2] = TypeByteOf(handle.dev)
        /\ handle.frame[3] = Zero + handle.id

\* C27 -- Motor scaling: the frame of absolute_move, relative_move, jog,
\* set_acceleration and set_deceleration is the motor prefix, the opcode, the
\* encoding of trunc(value * scale) and CR; set_velocity does the same with a
\* negative velocity replaced by 0, so its payload is never negative.
C27_Scaling ==
    (handle.pc = "built" /\ handle.dev = "Motor" /\ handle.op \in ScaledOps) =>
        LET f == handle.frame
            payload == SubSeq(f, 6, Len(f) - 1)
            value == IF handle.op = "set_velocity" /\ handle.v < 0 THEN 0 ELSE handle.v
            want == TruncDiv(value * handle.scale, Quarter)
            digits == IF want < 0 THEN Tail(payload) ELSE payload IN
        /\ SubSeq(f, 1, 3) = <<STX, 77, Zero + handle.id>>
        /\ SubSeq(f, 4, 5) = Opcode(handle.op)
        /\ f[Len(f)] = CR
        /\ want < 0 <=> payload[1] = Minus
        /\ Len(digits) >= 1
        /\ \A k \in 1..Len(digits) : digits[k] \in Zero..Nine
        /\ Len(digits) > 1 => digits[1] # Zero
        /\ PrefixValue(payload) = want
        /\ handle.op = "set_velocity" => payload[1] # Minus

\* absolute_move(-1.25) on motor 1 with scale 3: -3.75 truncated to -3.
C27_Witness ==
    /\ handle.pc = "built"
    /\ handle.op = "absolute_move"
    /\ handle.v = -5
    /\ handle.scale = 3
    /\ handle.frame = <<2, 77, 49, 65, 77, 45, 51, 13>>

----------------------------------------------------------------------------
\* Part 10.  One operation of a device handle against the controller:
\* check_reply (controllers/clear_core.rs 59-67), ClearCoreMotor::enable and
\* get_status, and the I/O operations of components/clear_core_io.rs.

MaxEnabling == 2   \* polls of one enable that may be answered Enabling
MaxCalls == 2      \* operations called one after the other

FAILED_REPLY == 63     \* b'?'

\* Byte 3 of the reply to a command: '?' or anything else ('_' here).
CmdReplyBytes == {FAILED_REPLY, 95}

\* Byte 3 of the reply to GS: the digits '0'..'5' and '?'.
StatusBytes == (Zero..(Zero + 5)) \cup {FAILED_REPLY}

\* The operations that send one frame and pass the reply to check_reply.
CheckedOps ==
    (FixedOps \ {"get_status"}) \cup ScaledOps \cup
    {"set_position", "DigitalInput.get_state", "AnalogInput.get_state",
     "DigitalOutput.set_state", "HBridge.set_state"}

\* A check_reply that lets every reply pass.
check_reply_lenient(b) == "Ok"

\* check_reply: Err carrying the reply as text when reply[3] is '?'.
check_reply(b) == IF b = FAILED_REPLY THEN "Err(reply text)" ELSE "Ok"

\* get_status, lines 169-176: the match on res[3]; check_reply is not called.
get_status(b) ==
    CASE b = 48 -> [res |-> "Ok", status |-> "Disabled"]
      [] b = 49 -> [res |-> "Ok", status |-> "Enabling"]
      [] b = 50 -> [res |-> "Ok", status |-> "Faulted"]
      [] b = 51 -> [res |-> "Ok", status |-> "Ready"]
      [] b = 52 -> [res |-> "Ok", status |-> "Moving"]
      [] OTHER -> [res |-> "Err(unknown status)", status |-> "none"]

\* A handle with nothing called on it.
InitOps ==
    /\ handle = [pc |-> "idle", op |-> "none", phase |-> "none", calls |-> 0,
                 sent |-> <<>>, seen |-> <<>>, reply |-> 0, ended |-> "none",
                 status |-> "none", res |-> "none", before |-> "none"]
    /\ IdleDispenser

\* The caller invokes an operation: its frame goes to the MotionClient.
OpCall ==
    /\ handle.pc \in {"idle", "done"}
    /\ handle.calls < MaxCalls
    /\ \E op \in CheckedOps \cup {"get_status"} :
         handle' = [handle EXCEPT
                      !.pc = IF op = "get_status" THEN "status_wait" ELSE "wait",
                      !.op = op,
                      !.phase = IF op = "get_status" THEN "single" ELSE "none",
                      !.calls = @ + 1,
                      !.sent = IF op = "get_status" THEN <<"GS">> ELSE <<op>>,
                      !.seen = <<>>, !.reply = 0, !.ended = "none",
                      !.status = "none", !.res = "none", !.before = handle.res]
    /\ UNCHANGED <<clientVars, dispVars, sp, servo, ecat, gantry, scaleQ, pace, mq>>

\* The reply to the command arrives: check_reply(&resp).await?  enable goes
\* on to its polling loop, every other operation returns Ok(..).
OpReply ==
    /\ handle.pc = "wait"
    /\ \E b \in CmdReplyBytes :
         handle' =
           IF check_reply(b) # "Ok"
             THEN [handle EXCEPT !.pc = "done", !.reply = b, !.res = check_reply(b)]
           ELSE IF handle.op = "enable"
             THEN [handle EXCEPT !.pc = "status_send", !.reply = b, !.phase = "loop"]
           ELSE [handle EXCEPT !.pc = "done", !.reply = b, !.res = "Ok"]
    /\ UNCHANGED <<clientVars, dispVars, sp, servo, ecat, gantry, scaleQ, pace, mq>>

\* enable, lines 48 and 51: self.get_status() writes the GS frame.
OpStatusSend ==
    /\ handle.pc = "status_send"
    /\ handle' = [handle EXCEPT !.pc = "status_wait", !.sent = Append(@, "GS")]
    /\ UNCHANGED <<clientVars, dispVars, sp, servo, ecat, gantry, scaleQ, pace, mq>>

\* The reply to GS arrives.  get_status on its own returns the decoded
\* status; the loop at lines 48-50 polls again while it is Enabling and leaves
\* on the first other status; line 51 then asks once more and decides on that
\* answer.  An undecodable reply leaves enable through `?`.
OpStatusReply ==
    /\ handle.pc = "status_wait"
    /\ \E b \in StatusBytes :
         LET r == get_status(b)
             h == [handle EXCEPT !.seen = Append(@, b)] IN
         /\ (handle.phase = "loop" /\ r.status = "Enabling") =>
                Len(handle.seen) < MaxEnabling
         /\ handle' =
              IF handle.phase = "single"
                THEN [h EXCEPT !.pc = "done", !.res = r.res, !.status = r.status]
              ELSE IF r.res # "Ok" THEN [h EXCEPT !.pc = "done", !.res = r.res]
              ELSE IF handle.phase = "loop"
                THEN IF r.status = "Enabling" THEN [h EXCEPT !.pc = "status_send"]
                     ELSE [h EXCEPT !.pc = "status_send", !.phase = "check",
                                    !.ended = r.status]
              ELSE [h EXCEPT !.pc = "done",
                             !.res = IF r.status = "Faulted"
                                       THEN "Err(motor faulted)" ELSE "Ok"]
    /\ UNCHANGED <<clientVars, dispVars, sp, servo, ecat, gantry, scaleQ, pace, mq>>

NextOps ==
    \/ OpCall
    \/ OpReply
    \/ OpStatusSend
    \/ OpStatusReply

OpsStart ==
    InitOps /\ IdleClient /\ IdleSetpoint /\ IdleServo /\ IdleEcat /\ IdleGantry
    /\ IdleScale
    /\ IdlePace /\ IdleMedian

SpecOps ==
    /\ OpsStart
    /\ [][NextOps]_vars

----------------------------------------------------------------------------
\* Properties of the handle operations.

\* C21 -- Motor enable fault: enable() fails with "motor faulted" exactly when
\* the status that ended the Enabling polling is Faulted and succeeds for
\* every other terminal status, whatever the controller reports later.
C21_EnableFault ==
    (/\ handle.op = "enable"
     /\ handle.pc = "done"
     /\ handle.ended # "none"
     /\ handle.res \in {"Ok", "Err(motor faulted)"}) =>
        (handle.res = "Err(motor faulted)" <=> handle.ended = "Faulted")

\* C22 -- Motor enable happy path: enable() sends EN and then GS queries only
\* until the first reply that is not Enabling; answered Enabling, Enabling,
\* Ready it returns success after exactly three status polls and sends no
\* fourth query.
C22_EnablePolls ==
    /\ (handle.op = "enable" /\ handle.ended # "none") =>
          \A k \in 1..(Len(handle.seen) - 1) : handle.seen[k] = 49
    /\ (/\ handle.op = "enable"
        /\ Len(handle.seen) >= 3
        /\ SubSeq(handle.seen, 1, 3) = <<49, 49, 51>>) =>
          /\ handle.sent = <<"enable", "GS", "GS", "GS">>
          /\ handle.pc = "done"
          /\ handle.res = "Ok"

C24_StatusDecoding ==
    (handle.op = "get_status" /\ handle.pc = "done") =>
        LET b == handle.seen[1] IN
        /\ b = 48 => handle.res = "Ok" /\ handle.status = "Disabled"
        /\ b = 49 => handle.res = "Ok" /\ handle.status = "Enabling"
        /\ b = 50 => handle.res = "Ok" /\ handle.status = "Faulted"
        /\ b = 51 => handle.res = "Ok" /\ handle.status = "Ready"
        /\ b = 52 => handle.res = "Ok" /\ handle.status = "Moving"
        /\ b = 53 => handle.res = "Err(unknown status)"
        /\ b = FAILED_REPLY => handle.res = "Err(reply text)"

----------------------------------------------------------------------------
(***************************************************************************)
(* Part 11: properties of termination, ordering and spacing stated over    *)
(* the specifications above.                                               *)
(***************************************************************************)

\* C31 -- Motor-speed updater termination: once dispense has returned, by any
\* outcome (weight achieved, timeout or motor error), the sibling task
\* update_motor_speed sends no further set_velocity or relative_move, so the
\* motor record is not touched after the return.
C31_UpdaterStops ==
    [][sp.pc = "returned" => ~(SUpdaterMove \/ (SUpdaterTop /\ motor' # motor))]_vars

\* C32 -- Servo Off on error: whenever a Hatch or Sealer operation whose
\* direction command (Pos or Neg) was accepted returns, for any reason, an
\* actuate(Off) has been issued after that direction command: no operation
\* returns with a direction command as the last actuator command.
C32_OffOnReturn ==
    (servo.pc = "idle" /\ servo.ret # "none") =>
        ~(servo.lastCmd \in {"Pos", "Neg"} /\ servo.lastCmd \in servo.sinceOff)

\* The sense of a move: a Pos move is satisfied by a reading at or above the
\* target, a Neg move by a reading at or below it.
SenseSatisfied(dir, v, setPoint) ==
    IF dir = "Pos" THEN v >= setPoint ELSE v <= setPoint

\* C33 -- Servo comparison sense: a feedback-controlled move stops driving at
\* the first reading that satisfies its sense (Pos: feedback >= target, Neg:
\* feedback <= target): it goes on to the timeout check only with a reading
\* that does not satisfy the sense, and it leaves the loop without a timeout
\* only with a reading that does.
C33_ComparisonSense ==
    /\ servo.pc = "check" =>
          ~SenseSatisfied(servo.dir, servo.fb, servo.setPoint)
    /\ (servo.pc = "off" /\ servo.op \notin TimedOps /\ ~servo.timedOut) =>
          SenseSatisfied(servo.dir, servo.fb, servo.setPoint)

\* C34 -- Seal cycle order: seal() drives Pos toward extend_setpoint and
\* issues Off, then heats, then drives Neg toward retract_setpoint and issues
\* Off; the heater is never on while a direction command is in force, and a
\* move whose measured position equals its endpoint issues no actuator
\* command.
C34_SealOrder ==
    [][/\ servo'.heater => servo'.sinceOff = {}
       /\ (servo'.op = "seal" /\ servo'.pc = "drive") =>
             servo'.dir = IF servo'.phase = 1 THEN "Pos" ELSE "Neg"
       /\ (servo.pc = "abs_read" /\ ~servo'.rejected /\ servo'.fb = servo.setPoint) =>
             (servo'.pc # "drive" /\ servo'.lastCmd = servo.lastCmd)]_vars

\* C35 -- EtherCAT writes reach the bus: once the loop has ended, by the
\* shutdown flag or by the senders being dropped, every SetState the master
\* applied to the process-data image was followed by a tx_rx: the loop ran a
\* tx_rx in an iteration later than the one that applied it.
C35_WritesFlushed ==
    ecat.why # "none" =>
        \A k \in 1..Len(ecat.applied) :
            ecat.applied[k].kind = "Set" =>
                ecat.txrxAtStop > ecat.applied[k].tick + 1

\* Lemma: the writes are flushed when the loop ends on Disconnected, because
\* that break is taken after the tx_rx of its iteration.
Ecat_DisconnectedFlushes ==
    ecat.why = "disconnected" =>
        \A k \in 1..Len(ecat.applied) :
            ecat.applied[k].kind = "Set" =>
                ecat.txrxAtStop > ecat.applied[k].tick + 1

\* C36 -- Zero-byte read: a read that returns 0 bytes (end of stream, nothing
\* buffered) does not end the serve loop: the client goes to the tick with no
\* buffer delivered and the reply sender unfired, the request's caller then
\* completes with Disconnected, and the loop takes the next request; a read
\* that fails with an error ends the serve loop.
C36_ZeroByteRead ==
    /\ [](/\ \A r \in ReqIds :
               (clientPc # "closed" /\ sink[r] = "dropped") => delivered[r] = <<>>
          /\ \A c \in Callers :
               (callerPc[c] = "idle" /\ callerReq[c] # 0
                  /\ sink[callerReq[c]] = "dropped") => callerRes[c] = "Disconnected")
    /\ [][(clientPc = "read" /\ clientPc' # "read" /\ rxbuf = <<>>) =>
            IF peer = "closed"
              THEN /\ clientPc' = "tick"
                   /\ delivered' = delivered
                   /\ sink'[cur] = "pending"
                   /\ queue' = queue
              ELSE clientPc' = "closed"]_vars

\* After a zero-byte read for one request, whose caller has seen Disconnected,
\* the loop is writing the frame of the next request.
C36_Witness ==
    /\ clientPc = "write"
    /\ cur # 0
    /\ \E r \in ReqIds : r # cur /\ sink[r] = "dropped" /\ delivered[r] = <<>>
    /\ \E c \in Callers : callerPc[c] = "idle" /\ callerRes[c] = "Disconnected"

----------------------------------------------------------------------------
(***************************************************************************)
(* Part 12: the pacing of the MotionClient (interface/tcp.rs lines 18-38). *)
(* Time is counted in milliseconds.  The interval is created before the    *)
(* loop with MissedTickBehavior::Skip: its first tick is due at creation,  *)
(* a tick() returns once the due instant has been reached, and the next    *)
(* due instant is the next multiple of the period, counted from the        *)
(* previous one, that lies after the instant tick() returned.              *)
(***************************************************************************)

Period == 5          \* Duration::from_millis(5)
MaxNow == 12         \* the clock runs from 0 to MaxNow
MaxFrames == 3       \* requests sent to one client

\* The due instant after a tick() that was due at `due` and returned at `now`.
IntervalNext(due, now) == SkipNext(due, now, Period)

\* After connect: interval(5 ms) created at instant 0, nothing queued.
InitPace ==
    /\ pace = [pc |-> "recv", now |-> 0, due |-> 0, pending |-> 0, sent |-> 0,
               last |-> -1, gap |-> -1]
    /\ IdleDispenser

\* A caller enqueues a request.
PaceArrive ==
    /\ pace.pc \notin {"absent", "closed"}
    /\ pace.pending + pace.sent < MaxFrames
    /\ pace' = [pace EXCEPT !.pending = @ + 1]
    /\ UNCHANGED <<clientVars, dispVars, sp, servo, actorVars, mq>>

\* msg.recv() yields a message and write_all starts: the instant is noted.
PaceWrite ==
    /\ pace.pc = "recv"
    /\ pace.pending > 0
    /\ pace' = [pace EXCEPT !.pc = "read", !.pending = @ - 1, !.sent = @ + 1,
                            !.last = pace.now,
                            !.gap = IF pace.last < 0 THEN -1 ELSE pace.now - pace.last]
    /\ UNCHANGED <<clientVars, dispVars, sp, servo, actorVars, mq>>

\* readable() and read(): Ok(0) and Ok(_) go on to the tick, Err breaks.
PaceRead ==
    /\ pace.pc = "read"
    /\ \E ok \in BOOLEAN :
         pace' = [pace EXCEPT !.pc = IF ok THEN "tick" ELSE "closed"]
    /\ UNCHANGED <<clientVars, dispVars, sp, servo, actorVars, mq>>

\* tick_interval.tick().await: returns once the due instant is reached.
PaceTick ==
    /\ pace.pc = "tick"
    /\ pace.now >= pace.due
    /\ pace' = [pace EXCEPT !.pc = "recv", !.due = IntervalNext(pace.due, pace.now)]
    /\ UNCHANGED <<clientVars, dispVars, sp, servo, actorVars, mq>>

\* One millisecond passes.
PaceAdvance ==
    /\ pace.pc \notin {"absent", "closed"}
    /\ pace.now < MaxNow
    /\ pace' = [pace EXCEPT !.now = @ + 1]
    /\ UNCHANGED <<clientVars, dispVars, sp, servo, actorVars, mq>>

NextPace ==
    \/ PaceArrive
    \/ PaceWrite
    \/ PaceRead
    \/ PaceTick
    \/ PaceAdvance

PaceStart ==
    InitPace /\ IdleClient /\ IdleSetpoint /\ IdleServo /\ IdleEcat /\ IdleGantry
    /\ IdleScale /\ IdleHandle /\ IdleMedian

SpecPace ==
    /\ PaceStart
    /\ [][NextPace]_vars

\* C37 -- Inter-frame spacing: the start of the write of any request frame is
\* at least 5 ms after the start of the write of the previous request frame,
\* for every arrival pattern of requests.
C37_Spacing ==
    pace.sent >= 2 => pace.gap >= Period

----------------------------------------------------------------------------
\* C38 -- Proportional speed update: in the weight-mode control loop two
\* speed updates are at least 200 ms apart; an update sends set_velocity
\* exactly when e * motor_speed >= 0.1, the velocity sent is
\* min(e * motor_speed, motor_speed), and the update then issues
\* relative_move(+20).  Stated here for the updater of SetpointDispenser.
C38_ProportionalUpdate ==
    [][/\ (sp.upc = "u_top" /\ sp'.upc \in {"u_move", "u_err"}) =>
             /\ sp'.uGap = -1 \/ sp'.uGap >= UpdateGap
             /\ LET newSpeed == sp.errNum * SpeedMilli IN
                IF newSpeed >= MinSpeedMilli * sp.grams
                  THEN \/ sp'.upc = "u_err"
                       \/ motor'.vel = Min(newSpeed, SpeedMilli * sp.grams)
                  ELSE motor' = motor
       /\ (sp.upc = "u_move" /\ sp'.upc # "u_move") => sp'.uDist = UpdateMove]_vars

\* Lemma: Dispenser::update_motor_speed does what C38 says: an update is taken
\* only more than 200 ms after the previous command, the velocity it sets is
\* min(e * motor_speed, motor_speed), and it goes on to its relative_move.
Dispenser_ProportionalUpdate ==
    [][(disp.pc = "update_speed" /\ disp'.pc # "update_speed") =>
          IF dNow - disp.lastSent > UpdateGap
            THEN /\ disp'.pc = "update_move"
                 /\ LET newSpeed == (disp.curr - disp.target) * SpeedMilli IN
                    IF newSpeed >= MinSpeedMilli * disp.grams
                      THEN \/ motor'.ignored
                           \/ /\ motor'.vel = Min(newSpeed, SpeedMilli * disp.grams)
                              /\ motor'.vel <= SpeedMilli * disp.grams
                      ELSE motor' = motor
            ELSE disp'.pc = "check" /\ motor' = motor]_vars

----------------------------------------------------------------------------
\* What C39 expects of a timed dispense: set_velocity, the retract_before
\* move when configured, relative_move(+100), the wait, abrupt_stop, the
\* retract_after move when configured.
TimedExpected(rb, ra) ==
    <<TimedStep("SV", SpeedMilli)>>
    \o (IF rb THEN <<TimedStep("RB", 0)>> ELSE <<>>)
    \o <<TimedStep("RM", TimedMove), TimedStep("wait", DispTimeout), TimedStep("AS", 0)>>
    \o (IF ra THEN <<TimedStep("RA", 0)>> ELSE <<>>)

\* C39 -- Timed dispense sequence: a timed dispense that has returned issued,
\* in this order, set_velocity, the retract_before move when retract_before is
\* configured, relative_move(+100), a wait of the configured duration,
\* abrupt_stop, and the retract_after move when retract_after is configured;
\* once the forward move was commanded and the wait is over, abrupt_stop is
\* issued.
C39_TimedSequence ==
    /\ (disp.pc = "done" /\ disp.mode = "Timed") =>
          disp.tlog = TimedExpected(disp.rb, disp.ra)
    /\ (disp.pc = "done" /\ disp.mode = "Timed") => motor.sent = "AS"

\* Lemma: without the retract moves the sequence is as C39 says, whatever is
\* configured: the timed setpoint never reads retract_before or retract_after.
Dispenser_TimedSequence ==
    (disp.pc = "done" /\ disp.mode = "Timed") =>
        /\ disp.tlog = TimedExpected(FALSE, FALSE)
        /\ motor.sent = "AS"

----------------------------------------------------------------------------
(***************************************************************************)
(* Part 13: median queries (Scale::median, components/scale.rs 90-94, and  *)
(* Dispenser::get_median_weight, subsystems/dispenser.rs 86-96).  Several  *)
(* queries run interleaved against one scale; each keeps the weights it    *)
(* was given in a buffer of its own and returns the median of that buffer. *)
(***************************************************************************)

MaxMedSamples == 3   \* a query takes 1..MaxMedSamples weights
MaxMedVal == 2       \* weights range over 0..MaxMedVal

Queries == {1, 2}
MedValues == 0..MaxMedVal

\* Two queries have been started, each for its own number of weights.
InitMedian ==
    /\ \E n \in [Queries -> 1..MaxMedSamples] :
         mq = [pc |-> "run", want |-> n, buf |-> [q \in Queries |-> <<>>],
               res |-> [q \in Queries |-> -1]]
    /\ IdleDispenser

\* get_median_weight, lines 88-92: one more weight is pushed on the buffer.
MedSample(q) ==
    /\ mq.pc = "run"
    /\ Len(mq.buf[q]) < mq.want[q]
    /\ \E w \in MedValues : mq' = [mq EXCEPT !.buf[q] = Append(@, w)]
    /\ UNCHANGED <<clientVars, dispVars, sp, servo, actorVars, pace>>

\* get_median_weight, lines 93-95: sort, take buffer[len / 2], return it.
MedFinish(q) ==
    /\ mq.pc = "run"
    /\ mq.res[q] = -1
    /\ Len(mq.buf[q]) = mq.want[q]
    /\ mq' = [mq EXCEPT !.res[q] = MedianOf(mq.buf[q])]
    /\ UNCHANGED <<clientVars, dispVars, sp, servo, actorVars, pace>>

NextMedian ==
    \/ \E q \in Queries : MedSample(q)
    \/ \E q \in Queries : MedFinish(q)

MedianStart ==
    InitMedian /\ IdleClient /\ IdleSetpoint /\ IdleServo /\ IdleEcat /\ IdleGantry
    /\ IdleScale /\ IdleHandle /\ IdlePace

SpecMedian ==
    /\ MedianStart
    /\ [][NextMedian]_vars

\* m is the element at 0-based index len / 2 of the ascending order of buf:
\* it occurs in buf, at most len / 2 elements are smaller and more than
\* len / 2 elements are smaller or equal.
IsUpperMiddle(m, buf) ==
    LET k == Len(buf) \div 2 IN
    /\ \E i \in 1..Len(buf) : buf[i] = m
    /\ Cardinality({i \in 1..Len(buf) : buf[i] < m}) <= k
    /\ Cardinality({i \in 1..Len(buf) : buf[i] <= m}) > k

\* C40 -- Median: for every non-empty list of weights the median is the
\* element at index len / 2 of the ascending sort of the list (the middle
\* element for odd lengths, the upper-middle for even lengths; the median of
\* 0, 6, 1, 3, 4 is 3), and the value a query returns is determined by its
\* own samples only, whatever the other query has sampled.
C40_Median ==
    /\ MedianOf(<<0, 6, 1, 3, 4>>) = 3
    /\ \A q \in Queries :
         mq.res[q] # -1 =>
            /\ Len(mq.buf[q]) = mq.want[q]
            /\ IsUpperMiddle(mq.res[q], mq.buf[q])
            /\ Len(mq.buf[q]) = 2 =>
                  mq.res[q] = IF mq.buf[q][1] >= mq.buf[q][2] THEN mq.buf[q][1]
                              ELSE mq.buf[q][2]

\* Two interleaved queries have returned: the one over 2, 0 the upper-middle
\* element 2, the one over 0, 1, 0 the middle element 0.
C40_Witness ==
    /\ mq.buf[1] = <<2, 0>>
    /\ mq.res[1] = 2
    /\ mq.buf[2] = <<0, 1, 0>>
    /\ mq.res[2] = 0

====
